---- MODULE Spec2Model ----
(***************************************************************************)
(* Model of the weighted-scoring and risk-flagging engine of the Unify     *)
(* services (execute_scoring_algorithm in src/architect.py and its copies) *)
(* and of the /generate-strategy endpoint that serves it.                  *)
(*                                                                         *)
(* Python floats are IEEE-754 doubles.  A non-negative double below 256 is *)
(* kept exactly, as the integer number of 2^-64 units it is worth, held in *)
(* three limbs <<h, m, l>> of 24 bits (value = h*2^48 + m*2^24 + l).       *)
(* Every arithmetic step rounds to 53 significant bits, ties to even, as   *)
(* the hardware does.  A float that was produced by round(x, 2) is kept as *)
(* its integer number of hundredths k; Dbl(k) is the double it denotes.    *)
(***************************************************************************)
EXTENDS Integers, Sequences, FiniteSets, TLC

VARIABLES
    copy,             \* which copy of the engine serves the request
    runtime,          \* how the interpreter's built-in sum() adds floats
    employees,        \* the request's employee list (the function's input)
    pc,               \* "request" before the call, "done" after it returned
    processed_staff,  \* the scored records, ranked
    avg_score,        \* the mean final_score, a double
    report,           \* the returned dictionary
    service,          \* which copy of the /generate-strategy service answers
    body,             \* the JSON body of the POST: the list under "employees"
    upstream,         \* how the identity and LLM servers and the framework behave
    ai_report,        \* what call_watsonx returned to the handler
    calls,            \* how often the engine and the LLM helper were invoked
    response,         \* the HTTP response sent to the client
    heap,             \* the list objects that concurrent invocations can reach
    invocations,      \* the local variables of each concurrent invocation
    CHAT_SESSION,     \* the chat service's global: the thread id it remembers
    chat              \* what the chat service did for the latest /api/chat request

vars == <<copy, runtime, employees, pc, processed_staff, avg_score, report,
          service, body, upstream, ai_report, calls, response,
          heap, invocations, CHAT_SESSION, chat>>

----------------------------------------------------------------------------
(* IEEE-754 double arithmetic on limbs                                      *)

LimbBase == 4096 * 4096

UnitsPerOne == 65536        \* top-limb value of 1.0: 2^64 = 65536 * 2^48

MantissaBits == 53

Pow2(k) == 2 ^ k

\* the number of bits of x, for 0 <= x < 2^31
BitLen4(x) == <<0, 1, 2, 2, 3, 3, 3, 3, 4, 4, 4, 4, 4, 4, 4, 4>>[x + 1]

BitLen8(x) == IF x < 16 THEN BitLen4(x) ELSE 4 + BitLen4(x \div 16)

BitLen16(x) == IF x < 256 THEN BitLen8(x) ELSE 8 + BitLen8(x \div 256)

BitLen(x) == IF x < 65536 THEN BitLen16(x) ELSE 16 + BitLen16(x \div 65536)

Zero == <<0, 0, 0>>

\* carry (or borrow) propagation from the low limbs upwards
Big(h, m, l) ==
    LET m1 == m + (l \div LimbBase)
    IN  <<h + (m1 \div LimbBase), m1 % LimbBase, l % LimbBase>>

BigAdd(a, b) == Big(a[1] + b[1], a[2] + b[2], a[3] + b[3])

BigAddInt(a, e) == Big(a[1], a[2], a[3] + e)

BigMulSmall(a, k) == Big(a[1] * k, a[2] * k, a[3] * k)

BigDivSmall(a, n) ==
    LET x2 == (a[1] % n) * LimbBase + a[2]
        x3 == (x2 % n) * LimbBase + a[3]
    IN  [q |-> <<a[1] \div n, x2 \div n, x3 \div n>>, r |-> x3 % n]

BigLess(a, b) ==
    \/ a[1] < b[1]
    \/ a[1] = b[1] /\ a[2] < b[2]
    \/ a[1] = b[1] /\ a[2] = b[2] /\ a[3] < b[3]

BigBitLen(a) ==
    IF a[1] > 0 THEN 48 + BitLen(a[1])
    ELSE IF a[2] > 0 THEN 24 + BitLen(a[2])
    ELSE BitLen(a[3])

\* Round an exact value to the nearest double, ties to even.  sticky says
\* that the exact value has non-zero bits below the 2^-64 grid.  err is the
\* exact value minus the rounded one (in grid units), for sticky = FALSE.
RoundToDouble(a, sticky) ==
    LET d == BigBitLen(a) - MantissaBits
    IN  IF d <= 0 THEN [val |-> a, err |-> 0]
        ELSE LET p    == Pow2(d)
                 rem  == a[3] % p
                 half == p \div 2
                 odd  == (a[3] \div p) % 2 = 1
                 up   == \/ rem > half
                         \/ rem = half /\ (sticky \/ odd)
                 delta == IF up THEN p - rem ELSE 0 - rem
             IN  [val |-> BigAddInt(a, delta), err |-> 0 - delta]

\* x + y
FAdd(x, y) == RoundToDouble(BigAdd(x, y), FALSE)

\* k * x for an int k (converted exactly to a float) and a float x
FMulInt(k, x) == RoundToDouble(BigMulSmall(x, k), FALSE).val

\* x / n for a float x and a positive int n
FDivInt(x, n) ==
    LET d == BigDivSmall(x, n) IN RoundToDouble(d.q, d.r # 0).val

\* the double nearest to the decimal num/den (a literal, a parsed JSON
\* number, or the result of round)
FromDecimal(num, den) == FDivInt(<<num * UnitsPerOne, 0, 0>>, den)

\* the double denoted by k hundredths
Dbl(k) == FromDecimal(k, 100)

\* round(x, 2): the exact binary value rounded to hundredths, ties to even;
\* the result is given as its number of hundredths
Round2(x) ==
    LET ip   == x[1] \div UnitsPerOne
        f100 == BigMulSmall(<<x[1] % UnitsPerOne, x[2], x[3]>>, 100)
        k0   == 100 * ip + (f100[1] \div UnitsPerOne)
        rem  == <<f100[1] % UnitsPerOne, f100[2], f100[3]>>
        half == <<UnitsPerOne \div 2, 0, 0>>
    IN  IF BigLess(half, rem) \/ (rem = half /\ k0 % 2 = 1)
        THEN k0 + 1 ELSE k0

\* sum(xs) over a list of floats.  Up to Python 3.11 the floats are added
\* left to right; from 3.12 on the additions are compensated (Neumaier):
\* the rounding error of every addition is accumulated exactly in c and
\* added to the result at the end.
RECURSIVE SumTo(_, _)
SumTo(xs, i) ==
    IF i = 1 THEN [c |-> 0, s |-> xs[1]]
    ELSE LET p == SumTo(xs, i - 1)
             t == FAdd(p.s, xs[i])
         IN  [c |-> p.c + t.err, s |-> t.val]

PySum(xs, rt) ==
    IF xs = <<>> THEN Zero
    ELSE LET r == SumTo(xs, Len(xs))
         IN  IF rt = "compensated" /\ r.c # 0
             THEN RoundToDouble(BigAddInt(r.s, r.c), FALSE).val
             ELSE r.s

----------------------------------------------------------------------------
(* Python strings, as sequences of characters.  A character is named by a  *)
(* string: "H", "7", and "sup2" for the superscript two, "sp" for the      *)
(* space.                                                                  *)

CasePairs ==
    { <<"H", "h">>, <<"I", "i">>, <<"G", "g">>, <<"M", "m">>, <<"E", "e">>,
      <<"D", "d">>, <<"U", "u">>, <<"L", "l">>, <<"O", "o">>, <<"W", "w">>,
      <<"X", "x">>, <<"P", "p">>, <<"R", "r">>, <<"T", "t">>,
      <<"A", "a">>, <<"C", "c">>, <<"J", "j">>, <<"K", "k">>, <<"S", "s">> }

ToUpper(c) ==
    IF \E p \in CasePairs : p[2] = c
    THEN (CHOOSE p \in CasePairs : p[2] = c)[1] ELSE c

ToLower(c) ==
    IF \E p \in CasePairs : p[1] = c
    THEN (CHOOSE p \in CasePairs : p[1] = c)[2] ELSE c

\* str.capitalize(): first character upper-cased, the rest lower-cased
Capitalize(s) ==
    [i \in 1..Len(s) |-> IF i = 1 THEN ToUpper(s[i]) ELSE ToLower(s[i])]

AsciiDigits == <<"0", "1", "2", "3", "4", "5", "6", "7", "8", "9">>

IsAsciiDigit(c) == \E d \in 1..10 : AsciiDigits[d] = c

\* the characters int() reads as decimal digits
IsDecimalChar(c) == IsAsciiDigit(c)

\* the digit's position in "0123456789" counted from one
DecimalValueOneBased(c) == CHOOSE d \in 1..10 : AsciiDigits[d] = c

DecimalValue(c) == (CHOOSE d \in 1..10 : AsciiDigits[d] = c) - 1

\* str.isdigit(): non-empty and every character has the Unicode digit
\* property, which the superscript digits have too
IsDigit(s) ==
    /\ Len(s) > 0
    /\ \A i \in 1..Len(s) : IsDecimalChar(s[i]) \/ s[i] = "sup2"

\* int(s) accepts s when it is made of decimal digits
IntAccepts(s) == Len(s) > 0 /\ \A i \in 1..Len(s) : IsDecimalChar(s[i])

RECURSIVE IntOf(_)
IntOf(s) ==
    IF Len(s) = 0 THEN 0
    ELSE 10 * IntOf(SubSeq(s, 1, Len(s) - 1)) + DecimalValue(s[Len(s)])

\* str(n) for an int n
RECURSIVE StrOfNat(_)
StrOfNat(n) ==
    IF n < 10 THEN <<AsciiDigits[n + 1]>>
    ELSE StrOfNat(n \div 10) \o <<AsciiDigits[(n % 10) + 1]>>

StrOfInt(n) == IF n < 0 THEN <<"-">> \o StrOfNat(0 - n) ELSE StrOfNat(n)

\* a talent value is a str or an int (Union[str, int]); str(emp.talent)
Str(talent) == IF talent.isInt THEN StrOfInt(talent.num) ELSE talent.text

----------------------------------------------------------------------------
(* The scoring engine                                                       *)

Copies == {"architect", "unify"}

Runtimes == {"naive", "compensated"}

\* the talent weight given the value of the education weight
WEIGHT_TALENT_AsEducation == FromDecimal(2, 10)

WEIGHT_TALENT == FromDecimal(3, 10)

WEIGHT_EDUCATION == FromDecimal(2, 10)

\* rating * WEIGHT_PERFORMANCE: the weight 0.5 is a power of two, so the
\* product is the exact half of the rating
TimesWeightPerformance(rating) == FDivInt(rating, 2)

HQ_CAPACITY == 20

RISK_SALARY == 100000

\* the whole headquarters team listed as top talent
TOP_TALENT_AsCapacity == HQ_CAPACITY

TOP_TALENT == 3

\* education_map of src/architect.py
education_map_full ==
    [s \in {"PhD", "Doctorate", "MD", "JD", "Master", "Masters", "MSc",
             "Bachelor", "Bachelors", "BSc", "BSN", "Associate",
             "High School"} |->
        CASE s \in {"PhD", "Doctorate", "MD", "JD"} -> 5
          [] s \in {"Master", "Masters", "MSc"} -> 4
          [] s \in {"Bachelor", "Bachelors", "BSc", "BSN"} -> 3
          [] s = "Associate" -> 2
          [] OTHER -> 1]

\* education_map of the compact copy in src/unify.py
education_map_compact ==
    [s \in {"PhD", "Doctorate", "Master", "Masters", "Bachelor",
             "Bachelors", "Associate", "High School"} |->
        CASE s \in {"PhD", "Doctorate"} -> 5
          [] s \in {"Master", "Masters"} -> 4
          [] s \in {"Bachelor", "Bachelors"} -> 3
          [] s = "Associate" -> 2
          [] OTHER -> 1]

\* every copy with the shorter table
education_map_Short(c) == education_map_compact

education_map(c) ==
    IF c = "architect" THEN education_map_full ELSE education_map_compact

\* the table with the scores of High and Medium exchanged
talent_map_HighMediumSwapped ==
    [k \in { <<"H", "i", "g", "h">>, <<"M", "e", "d", "i", "u", "m">>,
             <<"L", "o", "w">>, <<"5">>, <<"4">>, <<"3">>, <<"2">>, <<"1">> }
       |-> CASE k = <<"H", "i", "g", "h">> -> 3
             [] k = <<"M", "e", "d", "i", "u", "m">> -> 5
             [] k = <<"L", "o", "w">> -> 1
             [] OTHER -> IntOf(k)]

talent_map ==
    [k \in { <<"H", "i", "g", "h">>, <<"M", "e", "d", "i", "u", "m">>,
             <<"L", "o", "w">>, <<"5">>, <<"4">>, <<"3">>, <<"2">>, <<"1">> }
       |-> CASE k = <<"H", "i", "g", "h">> -> 5
             [] k = <<"M", "e", "d", "i", "u", "m">> -> 3
             [] k = <<"L", "o", "w">> -> 1
             [] OTHER -> IntOf(k)]

\* the lookup with 0 as the default for an unknown education label
EducationScoreDefaultZero(c, studies) ==
    IF studies \in DOMAIN education_map(c) THEN education_map(c)[studies]
    ELSE 0

\* edu_score = education_map.get(emp.studies, 1)
EducationScore(c, studies) ==
    IF studies \in DOMAIN education_map(c) THEN education_map(c)[studies]
    ELSE 1

\* The talent score of a record, or the fact that computing it raised.
\* src/architect.py: looked up in talent_map, else one of "1".."5", else 1.
TalentScoreFull(talent_str) ==
    [raised |-> FALSE,
     score  |-> IF talent_str \in DOMAIN talent_map
                THEN talent_map[talent_str]
                ELSE IF talent_str \in {<<"1">>, <<"2">>, <<"3">>,
                                        <<"4">>, <<"5">>}
                THEN IntOf(talent_str)
                ELSE 1]

\* src/unify.py: talent_map.get(talent_str, <default>) where the default
\* int(talent_str) if talent_str.isdigit() and 1 <= int(talent_str) <= 5
\* else 1 is evaluated before the lookup, and int() raises ValueError on a
\* digit that is not a decimal.
TalentScoreCompact(talent_str) ==
    IF IsDigit(talent_str) /\ ~IntAccepts(talent_str)
    THEN [raised |-> TRUE, score |-> 0]
    ELSE [raised |-> FALSE,
          score  |-> IF talent_str \in DOMAIN talent_map
                     THEN talent_map[talent_str]
                     ELSE IF /\ IsDigit(talent_str)
                             /\ 1 <= IntOf(talent_str)
                             /\ IntOf(talent_str) <= 5
                     THEN IntOf(talent_str)
                     ELSE 1]

\* talent_str = str(emp.talent).capitalize(), then the copy's mapping
TalentScore(c, talent) ==
    IF c = "architect" THEN TalentScoreFull(Capitalize(Str(talent)))
    ELSE TalentScoreCompact(Capitalize(Str(talent)))

\* round(rating*0.5 + talent_score*0.3 + edu_score*0.2, 2), in hundredths;
\* rating is the record's rating in hundredths
FinalScore(rating, talent_score, edu_score) ==
    Round2(FAdd(FAdd(TimesWeightPerformance(Dbl(rating)),
                     FMulInt(talent_score, WEIGHT_TALENT)).val,
                FMulInt(edu_score, WEIGHT_EDUCATION)).val)

\* one pass of the calculation loop: the scored record of emp
Scored(c, emp) ==
    [name        |-> emp.name,
     role        |-> emp.job,
     salary      |-> emp.salary,
     final_score |-> FinalScore(emp.rating, TalentScore(c, emp.talent).score,
                                EducationScore(c, emp.studies)),
     raw_rating  |-> emp.rating]

\* the calculation loop: a record whose scoring raises is skipped
RECURSIVE ScoreAll(_, _)
ScoreAll(c, emps) ==
    IF emps = <<>> THEN <<>>
    ELSE LET rest == ScoreAll(c, SubSeq(emps, 1, Len(emps) - 1))
             emp  == emps[Len(emps)]
         IN  IF TalentScore(c, emp.talent).raised THEN rest
             ELSE Append(rest, Scored(c, emp))

\* list.sort(key=final_score, reverse=True): descending and stable, a
\* record goes behind every record whose score is at least its own
\* the same insertion in front of the records of equal score
InsertRankedUnstable(ranked, p) ==
    LET ahead == Cardinality({i \in 1..Len(ranked) :
                                ranked[i].final_score > p.final_score})
    IN  SubSeq(ranked, 1, ahead) \o <<p>> \o SubSeq(ranked, ahead + 1, Len(ranked))

InsertRanked(ranked, p) ==
    LET ahead == Cardinality({i \in 1..Len(ranked) :
                                ranked[i].final_score >= p.final_score})
    IN  SubSeq(ranked, 1, ahead) \o <<p>> \o SubSeq(ranked, ahead + 1, Len(ranked))

RECURSIVE SortRanked(_)
SortRanked(staff) ==
    IF staff = <<>> THEN <<>>
    ELSE InsertRanked(SortRanked(SubSeq(staff, 1, Len(staff) - 1)),
                      staff[Len(staff)])

\* the mean with 1 as the value of the empty case
AvgScoreEmptyAsOne(staff, rt) ==
    IF Len(staff) > 0
    THEN FDivInt(PySum([i \in 1..Len(staff) |-> Dbl(staff[i].final_score)], rt),
                 Len(staff))
    ELSE Dbl(100)

\* the mean taken over hq_team, the first HQ_CAPACITY records, only
AvgScoreOfHeadquarters(staff, rt) ==
    LET n == IF Len(staff) < HQ_CAPACITY THEN Len(staff) ELSE HQ_CAPACITY
    IN  IF n > 0
        THEN FDivInt(PySum([i \in 1..n |-> Dbl(staff[i].final_score)], rt), n)
        ELSE Zero

\* avg_score = sum(final_score) / total_staff if total_staff > 0 else 0
AvgScore(staff, rt) ==
    IF Len(staff) > 0
    THEN FDivInt(PySum([i \in 1..Len(staff) |-> Dbl(staff[i].final_score)], rt),
                 Len(staff))
    ELSE Zero

\* the comparison with the mean turned around
IsRiskAboveAverage(p, avg) ==
    BigLess(avg, Dbl(p.final_score)) /\ p.salary > RISK_SALARY

\* Risk Condition: Score < Avg AND Salary > 100k
IsRisk(p, avg) == BigLess(Dbl(p.final_score), avg) /\ p.salary > RISK_SALARY

RiskEntry(c, p) ==
    IF c = "architect"
    THEN [name |-> p.name, role |-> p.role, salary |-> p.salary,
          merit_score |-> p.final_score,
          discrepancy |-> "High Salary / Low Merit"]
    ELSE p

FlaggedRisks(c, staff, avg) ==
    LET risky == SelectSeq(staff, LAMBDA p : IsRisk(p, avg))
    IN  [i \in 1..Len(risky) |-> RiskEntry(c, risky[i])]

\* the slice cut one position short when the list reaches the capacity
Head_Short(s, n) == SubSeq(s, 1, IF Len(s) < n THEN Len(s) ELSE n - 1)

Head_(s, n) == SubSeq(s, 1, IF Len(s) < n THEN Len(s) ELSE n)

\* the slice taken one position early: processed_staff[HQ_CAPACITY - 1:]
Tail_Overlap(s, n) == SubSeq(s, n, Len(s))

Tail_(s, n) == SubSeq(s, n + 1, Len(s))

\* the report of a function that fails when no record was scored
BuildReport_FailsWhenNoneScored(c, staff, avg) ==
    IF staff = <<>>
    THEN [status |-> "error", message |-> "Processing failed in Python block."]
    ELSE [status |-> "success",
          statistics |->
             [total_employees     |-> Len(staff),
              average_merit_score |-> Round2(avg),
              hq_count            |-> Len(Head_(staff, HQ_CAPACITY)),
              remote_count        |-> Len(Tail_(staff, HQ_CAPACITY))],
          top_talent_hq |->
             [i \in 1..Len(Head_(staff, TOP_TALENT)) |->
                 [name |-> staff[i].name, score |-> staff[i].final_score]],
          allocation_summary |->
             [headquarters_roster |->
                 [i \in 1..Len(Head_(staff, HQ_CAPACITY)) |-> staff[i].name],
              remote_roster |->
                 [i \in 1..Len(Tail_(staff, HQ_CAPACITY)) |->
                     staff[HQ_CAPACITY + i].name]],
          risk_flags |-> FlaggedRisks(c, staff, avg)]

BuildReport(c, staff, avg) ==
    LET hq_team     == Head_(staff, HQ_CAPACITY)
        remote_team == Tail_(staff, HQ_CAPACITY)
        top         == Head_(hq_team, TOP_TALENT)
    IN  [status |-> "success",
         statistics |->
            [total_employees     |-> Len(staff),
             average_merit_score |-> Round2(avg),
             hq_count            |-> Len(hq_team),
             remote_count        |-> Len(remote_team)],
         top_talent_hq |->
            [i \in 1..Len(top) |-> [name |-> top[i].name,
                                    score |-> top[i].final_score]],
         allocation_summary |->
            [headquarters_roster |-> [i \in 1..Len(hq_team) |-> hq_team[i].name],
             remote_roster |-> [i \in 1..Len(remote_team) |-> remote_team[i].name]],
         risk_flags |-> FlaggedRisks(c, staff, avg)]

----------------------------------------------------------------------------
(* The requests: bounded sets of employee lists                             *)

MaxEmployees == 22      \* longest employee list

MaxShort == 5           \* a list is this short at most, or HQ_CAPACITY long at least

MaxPeriod == 3          \* a long list repeats a pattern of at most this length

TextTalent(text) == [isInt |-> FALSE, text |-> text, num |-> 0]

IntTalent(n) == [isInt |-> TRUE, text |-> <<>>, num |-> n]

TalentPool ==
    { TextTalent(t) : t \in
        { <<"H", "i", "g", "h">>, <<"h", "i", "g", "h">>,
          <<"H", "I", "G", "H">>, <<"h", "I", "G", "H">>,
          <<"M", "e", "d", "i", "u", "m">>, <<"m", "e", "d", "i", "u", "m">>,
          <<"M", "E", "D", "I", "U", "M">>,
          <<"L", "o", "w">>, <<"l", "o", "w">>, <<"L", "O", "W">>,
          <<"1">>, <<"2">>, <<"3">>, <<"4">>, <<"5">>,
          <<"0">>, <<"6">>, <<"1", "2">>, <<"sup2">>, <<>>,
          <<"E", "x", "p", "e", "r", "t">>, <<"sp", "H", "i", "g", "h">> } }
    \cup { IntTalent(n) : n \in {0 - 1, 0, 1, 2, 3, 4, 5, 6} }

StudiesPool ==
    { "PhD", "Doctorate", "MD", "JD", "Master", "Masters", "MSc",
      "Bachelor", "Bachelors", "BSc", "BSN", "Associate", "High School",
      "phd", "PHD", "master", "bachelor", "High school", "MBA", "" }

RatingPool == {0, 1, 325, 500, 620}     \* hundredths: 0.0, 0.01, 3.25, 5.0, 6.2

Employee(name, rating, talent, studies, salary, job) ==
    [name |-> name, rating |-> rating, talent |-> talent,
     studies |-> studies, salary |-> salary, job |-> job]

\* the kinds of record the longer lists are made of
CoreKinds ==
    { [rating |-> 320, talent |-> TextTalent(<<"m", "e", "d", "i", "u", "m">>),
       studies |-> "Diploma", salary |-> 120000, job |-> "Analyst"],
      [rating |-> 500, talent |-> TextTalent(<<"H", "i", "g", "h">>),
       studies |-> "PhD", salary |-> 90000, job |-> "Scientist"],
      [rating |-> 100, talent |-> TextTalent(<<"L", "o", "w">>),
       studies |-> "High School", salary |-> 150000, job |-> "Manager"],
      [rating |-> 300, talent |-> IntTalent(2),
       studies |-> "Associate", salary |-> 100000, job |-> "Clerk"],
      [rating |-> 300, talent |-> TextTalent(<<"M", "e", "d", "i", "u", "m">>),
       studies |-> "Bachelor", salary |-> 130000, job |-> "Engineer"] }

OfKind(name, k) ==
    Employee(name, k.rating, k.talent, k.studies, k.salary, k.job)

\* the list of n records that repeats the pattern; names are the positions
CyclicBatch(pattern, n) ==
    [i \in 1..n |-> OfKind(i, pattern[((i - 1) % Len(pattern)) + 1])]

Patterns == UNION { [1..k -> CoreKinds] : k \in 1..MaxPeriod }

SingleBatches ==
    { <<Employee(1, r, t, s, 120000, "Engineer")>> :
        r \in RatingPool, t \in TalentPool, s \in StudiesPool }

BatchSizes == (1..MaxShort) \cup (HQ_CAPACITY..MaxEmployees)

\* lists whose mean score lies just above the score of most of their records:
\* two records scoring 2.7 for every record scoring 2.71
NearMeanBatches ==
    LET low  == CHOOSE k \in CoreKinds : k.job = "Analyst"
        high == [low EXCEPT !.rating = 322, !.job = "Auditor"]
    IN  { CyclicBatch(<<low, low, high>>, n) : n \in 3..MaxShort }

Batches ==
    {<<>>} \cup SingleBatches
           \cup { CyclicBatch(p, n) : p \in Patterns, n \in BatchSizes }
           \cup NearMeanBatches

----------------------------------------------------------------------------
(* The state machine: a request arrives, the engine answers it             *)

NoReport == [status |-> "none"]

\* a Python str built from a literal and a run-time text; None is kept apart
Text(lit, arg) == [isNone |-> FALSE, lit |-> lit, arg |-> arg]

None_ == [isNone |-> TRUE, lit |-> "", arg |-> <<>>]

NoCalls == [engine |-> 0, llm |-> 0]

NoResponse == [status_code |-> 0]

\* no HTTP request is in flight
NoService ==
    /\ service = "none"
    /\ body = <<>>
    /\ upstream = [framework |-> "none"]
    /\ ai_report = None_
    /\ calls = NoCalls
    /\ response = NoResponse

http == <<service, body, upstream, ai_report, calls, response>>

\* no invocation runs beside the one at hand, and no chat is going on
NoThreads ==
    /\ heap = <<>>
    /\ invocations = <<>>
    /\ CHAT_SESSION = [thread_id |-> "None"]
    /\ chat = <<>>

threads == <<heap, invocations, CHAT_SESSION, chat>>

Init ==
    /\ copy \in Copies
    /\ runtime \in Runtimes
    /\ employees \in Batches
    /\ pc = "request"
    /\ processed_staff = <<>>
    /\ avg_score = Zero
    /\ report = NoReport
    /\ NoService
    /\ NoThreads

ExecuteScoringAlgorithm ==
    /\ pc = "request"
    /\ processed_staff' = SortRanked(ScoreAll(copy, employees))
    /\ avg_score' = AvgScore(processed_staff', runtime)
    /\ report' = BuildReport(copy, processed_staff', avg_score')
    /\ pc' = "done"
    /\ UNCHANGED <<copy, runtime, employees>>
    /\ UNCHANGED <<http, threads>>

Next == ExecuteScoringAlgorithm

Spec == Init /\ [][Next]_vars

----------------------------------------------------------------------------
(* The /generate-strategy service: request validation, the handler and the  *)
(* LLM helper of src/architect.py and src/src/architect.py                  *)

Services == {"architect", "src_architect"}

\* what str() gives for an HTTPException built with keyword arguments: the
\* framework's newer releases define __str__ as "<status_code>: <detail>",
\* older ones inherit Exception's, which renders no arguments as ""
Frameworks == {"str_defined", "str_inherited"}

\* the JSON values a field of a submitted record can hold
JsonNumber(v) == [kind |-> "number", value |-> v, text |-> <<>>]

JsonString(t) == [kind |-> "string", value |-> 0, text |-> t]

JsonNull == [kind |-> "null", value |-> 0, text |-> <<>>]

\* text that float() reads as a plain decimal numeral of up to two decimals
IsNumeral(t) ==
    \/ IntAccepts(t)
    \/ \E d \in 2..(Len(t) - 1) :
         /\ t[d] = "."
         /\ Len(t) - d <= 2
         /\ IntAccepts(SubSeq(t, 1, d - 1))
         /\ IntAccepts(SubSeq(t, d + 1, Len(t)))

\* its value in hundredths
NumeralValue(t) ==
    IF IntAccepts(t) THEN 100 * IntOf(t)
    ELSE LET d    == CHOOSE d \in 2..(Len(t) - 1) : t[d] = "."
             frac == SubSeq(t, d + 1, Len(t))
         IN  100 * IntOf(SubSeq(t, 1, d - 1))
               + (IF Len(frac) = 1 THEN 10 * IntOf(frac) ELSE IntOf(frac))

\* rating: float = Field(...): a number, or text that reads as a number
ValidRating(j) ==
    j.kind = "number" \/ (j.kind = "string" /\ IsNumeral(j.text))

RatingOf(j) == IF j.kind = "number" THEN j.value ELSE NumeralValue(j.text)

\* an employee_id is required to be given
ValidEmployeeIdRequired(j) == j.kind \in {"number", "string"}

\* employee_id: Optional[Union[str, int]] = Field(None)
ValidEmployeeId(j) == j.kind \in {"null", "number", "string"}

\* a name is required to be a non-empty string
ValidNameNonEmpty(j) == j.kind = "string" /\ j.text # <<>>

\* name: str = Field(...)
ValidName(j) == j.kind = "string"

ValidRecord(r) ==
    /\ ValidEmployeeId(r.employee_id)
    /\ ValidName(r.name)
    /\ ValidRating(r.rating)

\* the EmployeeInput object of a valid record, as the engine reads it
ParseRecord(r) ==
    Employee(r.name.text, RatingOf(r.rating), r.talent, r.studies,
             r.salary, r.job)

\* the places of the records that fail validation
InvalidAt(b) == {i \in 1..Len(b) : ~ValidRecord(b[i])}

\* str.strip() on a text whose whitespace is written "sp"
Strip(t) ==
    LET keep == {i \in 1..Len(t) : t[i] # "sp"}
    IN  IF keep = {} THEN <<>>
        ELSE SubSeq(t, CHOOSE i \in keep : \A j \in keep : i <= j,
                       CHOOSE i \in keep : \A j \in keep : j <= i)

\* Python truthiness of an Optional[str]
Falsy(v) == v.isNone \/ (v.lit = "" /\ v.arg = <<>>)

TokenOutcomes == {"granted", "denied", "unreachable"}

GenerationKinds == {"ok", "bad_status", "malformed", "timeout"}

\* get_watsonx_token: the access token, None, or an exception
GetWatsonxToken(svc, up) ==
    CASE up.token = "granted" ->
            [raised |-> FALSE, token |-> Text("", <<"t", "o", "k">>)]
      [] svc = "architect" ->
            [raised |-> FALSE, token |-> None_]
      [] OTHER ->
            [raised |-> TRUE, token |-> None_]

\* the helper without its try/except: what the identity server or the LLM
\* server raises reaches the handler
CallWatsonxUnprotected(svc, up) ==
    LET tok == GetWatsonxToken(svc, up)
    IN  IF tok.raised THEN [raised |-> TRUE, value |-> None_]
        ELSE IF svc = "architect" /\ Falsy(tok.token)
        THEN [raised |-> FALSE,
              value  |-> Text("Error: Could not authenticate with IBM Cloud.",
                              <<>>)]
        ELSE CASE up.generation.kind = "ok" ->
                    [raised |-> FALSE,
                     value  |-> Text("", Strip(up.generation.text))]
               [] up.generation.kind = "bad_status" ->
                    [raised |-> FALSE,
                     value  |-> IF svc = "architect"
                                THEN Text("Error from AI Provider: ",
                                          up.generation.text)
                                ELSE None_]
               [] OTHER -> [raised |-> TRUE, value |-> None_]

\* call_watsonx: the stripped generated text, an error text, or None; every
\* exception is caught and answered with None
CallWatsonx(svc, up) ==
    LET tok == GetWatsonxToken(svc, up)
    IN  IF tok.raised THEN [raised |-> FALSE, value |-> None_]
        ELSE IF svc = "architect" /\ Falsy(tok.token)
        THEN [raised |-> FALSE,
              value  |-> Text("Error: Could not authenticate with IBM Cloud.",
                              <<>>)]
        ELSE CASE up.generation.kind = "ok" ->
                    [raised |-> FALSE,
                     value  |-> Text("", Strip(up.generation.text))]
               [] up.generation.kind = "bad_status" ->
                    [raised |-> FALSE,
                     value  |-> IF svc = "architect"
                                THEN Text("Error from AI Provider: ",
                                          up.generation.text)
                                ELSE None_]
               [] OTHER -> [raised |-> FALSE, value |-> None_]

\* str(e) of the HTTPException(status_code=..., detail=...) e, in pieces
StrOfHTTPException(fw, status_code, detail) ==
    IF fw = "str_defined" THEN <<status_code, ": ", detail>> ELSE <<>>

\* raise HTTPException(status_code=500, detail=str(e))
InternalError(detail) == [status_code |-> 500, content |-> [detail |-> detail]]

AI_FAILED == "Error: AI generation failed. Please check API Key."

\* the dictionary the handler returns, sent with status 200
Success(algo_results, ai) ==
    [status_code |-> 200,
     content |-> [status               |-> "success",
                  statistics           |-> algo_results.statistics,
                  strategic_report     |-> IF Falsy(ai) THEN Text(AI_FAILED, <<>>)
                                           ELSE ai,
                  raw_algorithm_output |-> algo_results]]

\* the answer to a body that fails validation
Unprocessable(svc, b) ==
    IF svc = "architect"
    THEN [status_code |-> 422,
          content |-> [detail |-> InvalidAt(b), body |-> b]]
    ELSE [status_code |-> 422, content |-> [detail |-> InvalidAt(b)]]

MaxBody == 2            \* longest submitted list

Submitted(employee_id, name, rating, kind) ==
    [employee_id |-> employee_id, name |-> name, rating |-> rating,
     talent |-> kind.talent, studies |-> kind.studies,
     salary |-> kind.salary, job |-> kind.job]

\* records with and without an employee id and a name, and records whose
\* rating or name is not of the declared type
SubmittedPool ==
    { Submitted(id, JsonString(n), JsonNumber(k.rating), k) :
        id \in {JsonNull, JsonNumber(7)},
        n \in {<<>>, <<"A", "n", "a">>},
        k \in {k \in CoreKinds : k.job = "Manager"} }
    \cup
    { Submitted(JsonString(<<"E", "7">>), JsonString(<<"B", "o">>), r, k) :
        r \in {JsonString(<<"a", "b", "c">>), JsonString(<<"3", ".", "2">>),
               JsonNull},
        k \in {k \in CoreKinds : k.job = "Scientist"} }
    \cup
    { Submitted(JsonNumber(8), JsonNull, JsonNumber(k.rating), k) :
        k \in {k \in CoreKinds : k.job = "Engineer"} }

Bodies == UNION { [1..n -> SubmittedPool] : n \in 0..MaxBody }

\* the behaviours of the servers that make a difference to the helper: the
\* LLM server is reached only with a token, and only an answer has a text
Upstreams ==
    { u \in [framework  : Frameworks,
             token      : TokenOutcomes,
             generation : [kind : GenerationKinds,
                           text : {<<>>, <<"sp", "sp">>,
                                   <<"sp", "O", "K", "sp">>}]] :
        /\ u.token # "granted" => u.generation.kind = "timeout"
        /\ u.generation.kind \in {"malformed", "timeout"}
             => u.generation.text = <<>>
        /\ u.generation.kind = "bad_status"
             => u.generation.text = <<"sp", "O", "K", "sp">> }

InitService ==
    /\ copy = "architect"
    /\ runtime \in Runtimes
    /\ employees = <<>>
    /\ pc = "received"
    /\ processed_staff = <<>>
    /\ avg_score = Zero
    /\ report = NoReport
    /\ service \in Services
    /\ body \in Bodies
    /\ upstream \in Upstreams
    /\ ai_report = None_
    /\ calls = NoCalls
    /\ response = NoResponse
    /\ NoThreads

\* a body that fails validation never reaches the handler: 422
ValidationExceptionHandler ==
    /\ pc = "received"
    /\ InvalidAt(body) # {}
    /\ response' = Unprocessable(service, body)
    /\ pc' = "responded"
    /\ UNCHANGED <<copy, runtime, employees, processed_staff, avg_score, report,
                   service, body, upstream, ai_report, calls, threads>>

\* the handler; an HTTPException raised inside its try block is caught by
\* its own 'except Exception' like any other exception
GenerateStrategy ==
    /\ pc = "received"
    /\ InvalidAt(body) = {}
    /\ employees' = [i \in 1..Len(body) |-> ParseRecord(body[i])]
    /\ IF employees' = <<>>
       THEN /\ response' = InternalError(
                              StrOfHTTPException(upstream.framework, "400",
                                                 "No employee data provided"))
            /\ UNCHANGED <<processed_staff, avg_score, report, ai_report, calls>>
       ELSE /\ processed_staff' = SortRanked(ScoreAll(copy, employees'))
            /\ avg_score' = AvgScore(processed_staff', runtime)
            /\ report' = BuildReport(copy, processed_staff', avg_score')
            /\ calls' = [engine |-> 1, llm |-> 1]
            /\ LET returned == CallWatsonx(service, upstream)
               IN  IF returned.raised
                   THEN /\ ai_report' = None_
                        /\ response' = InternalError(<<"upstream failure">>)
                   ELSE /\ ai_report' = returned.value
                        /\ response' = Success(report', returned.value)
    /\ pc' = "responded"
    /\ UNCHANGED <<copy, runtime, service, body, upstream, threads>>

NextService == ValidationExceptionHandler \/ GenerateStrategy

SpecService == InitService /\ [][NextService]_vars

----------------------------------------------------------------------------
(* Concurrent invocations of execute_scoring_algorithm: every invocation    *)
(* runs the function's statements in order, and the statements of           *)
(* different invocations interleave freely.  Lists are objects on a heap.   *)

NumInvocations == 2         \* how many invocations run at once

MaxListLen == 2             \* the longest employee list they are given

Invocations == 1..NumInvocations

\* the employee lists the callers hold; two invocations may be given the
\* same list object
InputIds == 1..2

\* one list object that every invocation appends to
FreshListShared(p) == Cardinality(InputIds) + 1

\* processed_staff = []: a new list object of the invocation's own
FreshList(p) == Cardinality(InputIds) + p

ListIds == 1..(Cardinality(InputIds) + NumInvocations)

GivenLists ==
    { CyclicBatch(<<k1, k2>>, n) :
        k1 \in {k \in CoreKinds : k.job = "Scientist"},
        k2 \in {k \in CoreKinds : k.job = "Manager"},
        n \in {MaxListLen - 1, MaxListLen} }
    \cup { <<Employee(1, 325, TextTalent(<<"sup2">>), "PhD", 120000, "Engineer")>> }

Local(input, given) ==
    [pc |-> "start", input |-> input, given |-> given,
     staff |-> 0, i |-> 1, avg |-> Zero, result |-> NoReport]

InitConcurrent ==
    /\ copy \in Copies
    /\ runtime \in Runtimes
    /\ employees = <<>>
    /\ pc = "concurrent"
    /\ processed_staff = <<>>
    /\ avg_score = Zero
    /\ report = NoReport
    /\ NoService
    /\ CHAT_SESSION = [thread_id |-> "None"]
    /\ chat = <<>>
    /\ \E given \in [InputIds -> GivenLists] :
         /\ heap = [id \in ListIds |-> IF id \in InputIds THEN given[id] ELSE <<>>]
         /\ \E input \in [Invocations -> InputIds] :
              invocations = [p \in Invocations |->
                                Local(input[p], given[input[p]])]

\* the statement of invocation p that runs next changes its locals to next
\* and the heap to heap_
Step(p, next, heap_) ==
    /\ invocations' = [invocations EXCEPT ![p] = next]
    /\ heap' = heap_
    /\ UNCHANGED <<copy, runtime, employees, pc, processed_staff, avg_score,
                   report, http, CHAT_SESSION, chat>>

\* processed_staff = []
Allocate(p) ==
    LET my == invocations[p]
    IN  /\ my.pc = "start"
        /\ Step(p, [my EXCEPT !.pc = "loop", !.staff = FreshList(p)],
                [heap EXCEPT ![FreshList(p)] = <<>>])

\* one pass of 'for emp in employees', which reads the list as it is now
ScoreNext(p) ==
    LET my  == invocations[p]
        emp == heap[my.input][my.i]
    IN  /\ my.pc = "loop"
        /\ my.i <= Len(heap[my.input])
        /\ Step(p, [my EXCEPT !.i = my.i + 1],
                IF TalentScore(copy, emp.talent).raised THEN heap
                ELSE [heap EXCEPT ![my.staff] = Append(@, Scored(copy, emp))])

\* the loop ends; processed_staff.sort(...) sorts the list in place
Rank(p) ==
    LET my == invocations[p]
    IN  /\ my.pc = "loop"
        /\ my.i > Len(heap[my.input])
        /\ Step(p, [my EXCEPT !.pc = "ranked"],
                [heap EXCEPT ![my.staff] = SortRanked(@)])

\* total_staff and avg_score
Average(p) ==
    LET my == invocations[p]
    IN  /\ my.pc = "ranked"
        /\ Step(p, [my EXCEPT !.pc = "averaged",
                              !.avg = AvgScore(heap[my.staff], runtime)],
                heap)

\* the risk loop and the returned dictionary; the slices hq_team and
\* remote_team are copies of parts of the invocation's own ranked list
Return(p) ==
    LET my == invocations[p]
    IN  /\ my.pc = "averaged"
        /\ Step(p, [my EXCEPT !.pc = "returned",
                              !.result = BuildReport(copy, heap[my.staff], my.avg)],
                heap)

NextConcurrent ==
    \E p \in Invocations :
        \/ Allocate(p)
        \/ ScoreNext(p)
        \/ Rank(p)
        \/ Average(p)
        \/ Return(p)

SpecConcurrent == InitConcurrent /\ [][NextConcurrent]_vars

----------------------------------------------------------------------------
(* The chat service of src/unify.py: /api/chat keeps one conversation       *)
(* thread for the whole process in the global CHAT_SESSION.  The handler    *)
(* awaits nothing, so requests are served one after the other.              *)
(* None is written "None"; ids and tokens are non-empty texts.              *)

ThreadIds == {"thread-1", "thread-2"}

\* how the identity server answers: with a token, without one, or not at all
IamReplies ==
    { [raised |-> FALSE, access_token |-> "token"],
      [raised |-> FALSE, access_token |-> "None"],
      [raised |-> TRUE,  access_token |-> "None"] }

\* how the threads API answers a creation
ThreadReplies ==
    [raised : {FALSE}, status_code : {200, 201, 404}, id : ThreadIds \cup {"None"}]
    \cup { [raised |-> TRUE, status_code |-> 0, id |-> "None"] }

\* how the runs API answers
RunReplies ==
    { [raised |-> FALSE, content |-> TRUE],
      [raised |-> FALSE, content |-> FALSE],
      [raised |-> TRUE,  content |-> FALSE] }

\* Python truthiness of an Optional[str]
Truthy(v) == v # "None" /\ v # ""

\* the token stands in for a missing one
GetIamTokenPlaceholder(reply) ==
    IF reply.raised \/ reply.access_token = "None" THEN "anonymous"
    ELSE reply.access_token

\* get_iam_token: res.json().get("access_token"), None on any exception
GetIamToken(reply) == IF reply.raised THEN "None" ELSE reply.access_token

\* the function without its test of the remembered thread
GetOrCreateThreadAlways(session, reply) ==
    IF ~reply.raised /\ reply.status_code \in {200, 201}
    THEN [called  |-> TRUE, thread_id |-> reply.id,
          session |-> [session EXCEPT !.thread_id = reply.id]]
    ELSE [called |-> TRUE, thread_id |-> "None", session |-> session]

\* get_or_create_thread: the remembered thread, or a newly created one that
\* is remembered from then on; None when the creation fails
GetOrCreateThread(session, reply) ==
    IF Truthy(session.thread_id)
    THEN [called |-> FALSE, thread_id |-> session.thread_id, session |-> session]
    ELSE IF ~reply.raised /\ reply.status_code \in {200, 201}
    THEN [called  |-> TRUE, thread_id |-> reply.id,
          session |-> [session EXCEPT !.thread_id = reply.id]]
    ELSE [called |-> TRUE, thread_id |-> "None", session |-> session]

AUTH_FAILED == "Error: Authentication failed. Check API_KEY in .env"

THREAD_FAILED ==
    "Error: Could not create chat thread. Check AGENT_ID/INSTANCE_URL in .env"

\* the text of the answer to a submitted run
RunAnswer(reply) ==
    IF reply.raised THEN "Error calling agent: ..."
    ELSE IF reply.content THEN "<the texts of the content>"
    ELSE "No response received."

\* what chat_endpoint does for one request, given the servers' answers
Served(session, iam, created, ran) ==
    LET token  == GetIamToken(iam)
        thread == GetOrCreateThread(session, created)
    IN  IF ~Truthy(token)
        THEN [iam |-> iam, thread_before |-> session.thread_id,
              create_called |-> FALSE, created |-> created,
              run_thread |-> "None", session |-> session,
              response |-> AUTH_FAILED]
        ELSE IF ~Truthy(thread.thread_id)
        THEN [iam |-> iam, thread_before |-> session.thread_id,
              create_called |-> thread.called, created |-> created,
              run_thread |-> "None", session |-> thread.session,
              response |-> THREAD_FAILED]
        ELSE [iam |-> iam, thread_before |-> session.thread_id,
              create_called |-> thread.called, created |-> created,
              run_thread |-> thread.thread_id, session |-> thread.session,
              response |-> RunAnswer(ran)]

InitChat ==
    /\ copy = "unify"
    /\ runtime = "naive"
    /\ employees = <<>>
    /\ pc = "chat"
    /\ processed_staff = <<>>
    /\ avg_score = Zero
    /\ report = NoReport
    /\ NoService
    /\ heap = <<>>
    /\ invocations = <<>>
    /\ CHAT_SESSION = [thread_id |-> "None"]
    /\ chat = <<>>

\* one /api/chat request, from its arrival to its answer
ChatEndpoint ==
    /\ pc = "chat"
    /\ \E iam \in IamReplies, created \in ThreadReplies, ran \in RunReplies :
         LET did == Served(CHAT_SESSION, iam, created, ran)
         IN  /\ CHAT_SESSION' = did.session
             /\ chat' = <<[did EXCEPT !.session = "kept in CHAT_SESSION"]>>
    /\ UNCHANGED <<copy, runtime, employees, pc, processed_staff, avg_score,
                   report, http, heap, invocations>>

NextChat == ChatEndpoint

SpecChat == InitChat /\ [][NextChat]_vars

----------------------------------------------------------------------------
(* The tech-stack service of src/techstack.py: /harmonize-tech-stack pairs  *)
(* the tools that overlap and recommends the cheaper of each pair.  Prices  *)
(* are written in hundredths and computed as floats.                   *)

\* x - y for floats x >= y
FSub(x, y) == RoundToDouble(Big(x[1] - y[1], x[2] - y[2], x[3] - y[3]), FALSE).val

\* str.lower()
Lower(s) == [i \in 1..Len(s) |-> ToLower(s[i])]

\* a in b, for strings
IsIn(a, b) == \E i \in 1..(Len(b) - Len(a) + 1) : SubSeq(b, i, i + Len(a) - 1) = a

MaxInvoices == 2

\* the service names on the invoices
ToolNames == {<<"T", "e", "a", "m", "s">>, <<"M", "e", "e", "t">>, <<"T", "r", "e", "l", "l", "o">>}

\* the invoices a company can submit: service_name and internal_cost
InvoiceItem ==
    { [service_name |-> <<"T", "e", "a", "m", "s">>, internal_cost |-> 500],
      [service_name |-> <<"T", "e", "a", "m", "s">>, internal_cost |-> 1349],
      [service_name |-> <<"M", "e", "e", "t">>, internal_cost |-> 800],
      [service_name |-> <<"T", "r", "e", "l", "l", "o">>, internal_cost |-> 815] }

HarmonizationRequest ==
    [company_a_invoices : UNION { [1..k -> InvoiceItem] : k \in 1..MaxInvoices },
     company_b_invoices : UNION { [1..k -> InvoiceItem] : k \in 0..1 }]

\* what the handler gets from outside.  conflicts: what the language model
\* names as redundant (nothing usable, or groups of tools whose names need
\* not be those of the invoices); web: the price search_web_price finds for
\* a tool (0 for none); order: the order in which a set lists the names
HarmonizationAnswers ==
    [conflicts :
       { <<>>,
         <<[category |-> "Chat", tools |-> <<<<"t", "e", "a", "m", "s">>, <<"M", "e", "e", "t">>>>]>>,
         <<[category |-> "Work", tools |-> <<<<"T", "r", "e", "l", "l", "o">>, <<"M", "e", "e", "t">>, <<"T", "e", "a", "m", "s">>>>]>>,
         <<[category |-> "Chat", tools |-> <<<<"T", "e", "a", "m", "s">>, <<"M", "e", "e", "t">>>>],
           [category |-> "Boards",
            tools |-> <<<<"T", "r", "e", "l", "l", "o">>, <<"T", "e", "a", "m">>,
                        <<"M", "i", "r", "o">>>>]>> },
     web : [ToolNames -> {0, 815}],
     order : { o \in [1..Cardinality(ToolNames) -> ToolNames] :
                 \A i, j \in DOMAIN o : o[i] = o[j] => i = j }]

groups ==
    << [category |-> "Communication",
        keywords |-> <<<<"s", "l", "a", "c", "k">>,
                      <<"t", "e", "a", "m", "s">>,
                      <<"d", "i", "s", "c", "o", "r", "d">>,
                      <<"z", "o", "o", "m">>,
                      <<"m", "e", "e", "t">>>>],
       [category |-> "Project Management",
        keywords |-> <<<<"j", "i", "r", "a">>,
                      <<"a", "s", "a", "n", "a">>,
                      <<"m", "o", "n", "d", "a", "y">>,
                      <<"t", "r", "e", "l", "l", "o">>,
                      <<"l", "i", "n", "e", "a", "r">>>>],
       [category |-> "CRM",
        keywords |-> <<<<"h", "u", "b", "s", "p", "o", "t">>,
                      <<"s", "a", "l", "e", "s", "f", "o", "r", "c", "e">>,
                      <<"z", "o", "h", "o">>>>],
       [category |-> "Design",
        keywords |-> <<<<"f", "i", "g", "m", "a">>,
                      <<"a", "d", "o", "b", "e", "sp", "x", "d">>,
                      <<"s", "k", "e", "t", "c", "h">>>>],
       [category |-> "Cloud",
        keywords |-> <<<<"a", "w", "s">>,
                      <<"a", "z", "u", "r", "e">>,
                      <<"g", "o", "o", "g", "l", "e", "sp", "c", "l", "o", "u", "d">>>>] >>

\* found_groups after the first n invoices: the categories in the order they
\* were first met (for a name, the first category one of whose keywords is
\* in it), each with the names of its invoices
RECURSIVE FoundGroups(_, _)
FoundGroups(invoices, n) ==
    IF n = 0 THEN <<>>
    ELSE LET found == FoundGroups(invoices, n - 1)
             name  == invoices[n].service_name
             hit(g) == \E k \in DOMAIN groups[g].keywords :
                          IsIn(groups[g].keywords[k], Lower(name))
             cat   == IF \E g \in DOMAIN groups : hit(g)
                      THEN <<groups[CHOOSE g \in DOMAIN groups :
                                 hit(g) /\ \A h \in 1..(g - 1) : ~hit(h)].category>>
                      ELSE <<>>
         IN  IF cat = <<>> THEN found
             ELSE IF \E i \in DOMAIN found : found[i].category = cat[1]
             THEN [i \in DOMAIN found |->
                     IF found[i].category = cat[1]
                     THEN [found[i] EXCEPT !.tools = Append(@, name)]
                     ELSE found[i]]
             ELSE Append(found, [category |-> cat[1], tools |-> <<name>>])

FallbackRedundancyCheck(invoices) ==
    SelectSeq(FoundGroups(invoices, Len(invoices)), LAMBDA g : Len(g.tools) > 1)

\* detect_redundancies_ai: the model's groups, or the keyword groups when
\* the model gave none
DetectRedundanciesAi(invoices, answered) ==
    IF answered # <<>> THEN answered ELSE FallbackRedundancyCheck(invoices)

\* the keys of tool_map: the service names in the order of their first
\* invoice
RECURSIVE ToolKeys(_, _)
ToolKeys(invoices, n) ==
    IF n = 0 THEN <<>>
    ELSE LET keys == ToolKeys(invoices, n - 1)
         IN  IF \E i \in DOMAIN keys : keys[i] = invoices[n].service_name
             THEN keys ELSE Append(keys, invoices[n].service_name)

\* tool_map[name]: the last invoice of that name
ToolItem(invoices, name) ==
    invoices[CHOOSE i \in DOMAIN invoices :
               /\ invoices[i].service_name = name
               /\ \A j \in DOMAIN invoices :
                    invoices[j].service_name = name => j <= i]

\* fuzzy_find_tool: <<the name found>>, or <<>> for None
FuzzyFindTool(target_name, keys) ==
    LET Fuzzy(target, name) ==
            \/ Lower(target) = Lower(name)
            \/ IsIn(Lower(target), Lower(name))
            \/ IsIn(Lower(name), Lower(target))
    IN
    IF \E i \in DOMAIN keys : keys[i] = target_name THEN <<target_name>>
    ELSE IF \E i \in DOMAIN keys : Fuzzy(target_name, keys[i])
    THEN <<keys[CHOOSE i \in DOMAIN keys :
                  /\ Fuzzy(target_name, keys[i])
                  /\ \A j \in 1..(i - 1) : ~Fuzzy(target_name, keys[j])]>>
    ELSE <<>>

\* list(set(...)) of the tools found for a group, listed in the order the
\* set happens to have
ValidTools(group, keys, order) ==
    LET found == { t \in ToolNames :
                     \E k \in DOMAIN group.tools :
                        FuzzyFindTool(group.tools[k], keys) = <<t>> }
    IN  SelectSeq(order, LAMBDA t : t \in found)

\* the price that counts for a tool: the web price, or else the invoice's
FinalPrice(web_price, item) ==
    IF web_price > 0 THEN web_price ELSE item.internal_cost

\* the pair with the dearer tool kept
MigrateToDearer(category, name_a, name_b, final_a, final_b) ==
    IF final_a > final_b
    THEN [category |-> category, action |-> "MIGRATE",
          tool_to_keep |-> name_a, tool_to_drop |-> name_b,
          estimated_annual_savings |->
              Round2(FMulInt(12, FMulInt(100, FSub(Dbl(final_a), Dbl(final_b))))),
          reasoning |-> [cheaper |-> final_b, dearer |-> final_a]]
    ELSE [category |-> category, action |-> "MIGRATE",
          tool_to_keep |-> name_b, tool_to_drop |-> name_a,
          estimated_annual_savings |->
              Round2(FMulInt(12, FMulInt(100, FSub(Dbl(final_b), Dbl(final_a))))),
          reasoning |-> [cheaper |-> final_a, dearer |-> final_b]]

\* the recommendation for a pair of overlapping tools
Migrate(category, name_a, name_b, final_a, final_b) ==
    IF BigLess(Dbl(final_a), Dbl(final_b))
    THEN [category |-> category, action |-> "MIGRATE",
          tool_to_keep |-> name_a, tool_to_drop |-> name_b,
          estimated_annual_savings |->
              Round2(FMulInt(12, FMulInt(100, FSub(Dbl(final_b), Dbl(final_a))))),
          reasoning |-> [cheaper |-> final_a, dearer |-> final_b]]
    ELSE [category |-> category, action |-> "MIGRATE",
          tool_to_keep |-> name_b, tool_to_drop |-> name_a,
          estimated_annual_savings |->
              Round2(FMulInt(12, FMulInt(100, FSub(Dbl(final_a), Dbl(final_b))))),
          reasoning |-> [cheaper |-> final_b, dearer |-> final_a]]

Keep(name) ==
    [category |-> "Unique", action |-> "KEEP", tool_to_keep |-> name,
     tool_to_drop |-> <<"N", "o", "n", "e">>, estimated_annual_savings |-> 0,
     reasoning |-> [cheaper |-> 0, dearer |-> 0]]

\* the loop over the first n conflicts: the recommendations made and the
\* tools seen in a group of two or more
RECURSIVE Paired(_, _, _, _)
Paired(invoices, conflicts, env, n) ==
    IF n = 0 THEN [recommendations |-> <<>>, processed_tools |-> {}]
    ELSE LET before == Paired(invoices, conflicts, env, n - 1)
             valid  == ValidTools(conflicts[n],
                                  ToolKeys(invoices, Len(invoices)), env.order)
         IN  IF Len(valid) > 1
             THEN [recommendations |->
                     Append(before.recommendations,
                            Migrate(conflicts[n].category, valid[1], valid[2],
                                    FinalPrice(env.web[valid[1]],
                                               ToolItem(invoices, valid[1])),
                                    FinalPrice(env.web[valid[2]],
                                               ToolItem(invoices, valid[2])))),
                   processed_tools |->
                     before.processed_tools \cup {valid[i] : i \in DOMAIN valid}]
             ELSE before

\* the answer of the endpoint to a request, given what the model and the
\* price search answer
Harmonized(request, env) ==
    LET all_invoices == request.company_a_invoices \o request.company_b_invoices
        conflicts    == DetectRedundanciesAi(all_invoices, env.conflicts)
        paired       == Paired(all_invoices, conflicts, env, Len(conflicts))
        unique       == SelectSeq(ToolKeys(all_invoices, Len(all_invoices)),
                                  LAMBDA t : t \notin paired.processed_tools)
    IN  [status |-> "success", conflicts_detected |-> Len(conflicts),
         recommendations |->
             paired.recommendations \o [i \in DOMAIN unique |-> Keep(unique[i])]]

HarmonizeTechStack ==
    /\ pc = "received"
    /\ service = "techstack"
    /\ response' = Harmonized(body, upstream)
    /\ pc' = "responded"
    /\ UNCHANGED <<copy, runtime, employees, processed_staff, avg_score, report,
                   service, body, upstream, ai_report, calls, threads>>

----------------------------------------------------------------------------
(* The course services: src/project.py and src/development.py recommend     *)
(* courses for predicted skills.  A skill is a JSON value: the language     *)
(* model can put anything in its list.                                      *)

MaxStaff == 2

COURSE_CATALOG ==
    << [course_name |-> <<"K", "u", "b", "e", "r", "n", "e", "t", "e", "s", "sp", "M", "a", "s", "t", "e", "r", "y">>,
        provider |-> "Udemy", duration_hours |-> 16, cost |-> 399,
        skills_covered |-> <<<<"K", "u", "b", "e", "r", "n", "e", "t", "e", "s">>,
                           <<"D", "o", "c", "k", "e", "r">>>>],
       [course_name |-> <<"P", "y", "t", "h", "o", "n", "sp", "f", "o", "r", "sp", "D", "a", "t", "a", "sp", "S", "c", "i", "e", "n", "c", "e">>,
        provider |-> "Coursera", duration_hours |-> 24, cost |-> 299,
        skills_covered |-> <<<<"P", "y", "t", "h", "o", "n">>,
                           <<"M", "a", "c", "h", "i", "n", "e", "sp", "L", "e", "a", "r", "n", "i", "n", "g">>>>],
       [course_name |-> <<"A", "W", "S", "sp", "S", "o", "l", "u", "t", "i", "o", "n", "s", "sp", "A", "r", "c", "h", "i", "t", "e", "c", "t">>,
        provider |-> "A Cloud Guru", duration_hours |-> 40, cost |-> 499,
        skills_covered |-> <<<<"A", "W", "S">>,
                           <<"C", "l", "o", "u", "d">>>>],
       [course_name |-> <<"L", "e", "a", "d", "e", "r", "s", "h", "i", "p", "sp", "E", "s", "s", "e", "n", "t", "i", "a", "l", "s">>,
        provider |-> "LinkedIn", duration_hours |-> 12, cost |-> 199,
        skills_covered |-> <<<<"L", "e", "a", "d", "e", "r", "s", "h", "i", "p">>>>],
       [course_name |-> <<"C", "I", "/", "C", "D", "sp", "P", "i", "p", "e", "l", "i", "n", "e", "s">>,
        provider |-> "Pluralsight", duration_hours |-> 8, cost |-> 149,
        skills_covered |-> <<<<"C", "I", "/", "C", "D">>,
                           <<"D", "e", "v", "O", "p", "s">>>>],
       [course_name |-> <<"J", "a", "v", "a", "S", "c", "r", "i", "p", "t", "sp", "A", "d", "v", "a", "n", "c", "e", "d">>,
        provider |-> "Udemy", duration_hours |-> 20, cost |-> 349,
        skills_covered |-> <<<<"J", "a", "v", "a", "S", "c", "r", "i", "p", "t">>,
                           <<"R", "e", "a", "c", "t">>>>],
       [course_name |-> <<"T", "e", "r", "r", "a", "f", "o", "r", "m", "sp", "I", "a", "C">>,
        provider |-> "HashiCorp", duration_hours |-> 10, cost |-> 249,
        skills_covered |-> <<<<"T", "e", "r", "r", "a", "f", "o", "r", "m">>,
                           <<"C", "l", "o", "u", "d">>>>] >>

\* the skills that requests and predictions are made of
SkillPool ==
    << JsonString(<<"D", "o", "c", "k", "e", "r">>),
       JsonString(<<"K", "u", "b", "e", "r", "n", "e", "t", "e", "s">>),
       JsonString(<<"P", "y", "t", "h", "o", "n">>),
       JsonString(<<"M", "a", "c", "h", "i", "n", "e", "sp", "L", "e", "a", "r", "n", "i", "n", "g">>),
       JsonString(<<"C", "l", "o", "u", "d">>),
       JsonString(<<"L", "e", "a", "d", "e", "r", "s", "h", "i", "p">>),
       JsonString(<<"C", "I", "/", "C", "D">>),
       JsonString(<<"p", "y", "t", "h", "o", "n">>) >>

\* the requests for /recommend-courses: skills without and with repetition
CourseRecommendationRequest ==
    [skills : { SelectSeq(SkillPool, LAMBDA s : s \in chosen) :
                  chosen \in SUBSET {SkillPool[k] : k \in DOMAIN SkillPool} }
              \cup { <<SkillPool[1], SkillPool[3], SkillPool[3], SkillPool[4]>>,
                     <<SkillPool[1], SkillPool[2], SkillPool[4], SkillPool[3],
                       SkillPool[4], SkillPool[6]>> }]

\* matched: the requested skills that the course covers; src/development.py
\* compares them in lower case, src/project.py as they are
MatchedSkills(c, skills, course) ==
    SelectSeq(skills, LAMBDA s :
        /\ s.kind = "string"
        /\ \E k \in DOMAIN course.skills_covered :
              IF c = "development"
              THEN Lower(s.text) = Lower(course.skills_covered[k])
              ELSE s.text = course.skills_covered[k])

\* an insertion that puts a recommendation ahead of those of equal key
InsertRecommendationAhead(sorted, r) ==
    LET key(x)   == <<IF x.priority = "high" THEN 0 ELSE 1,
                      0 - Len(x.matched_skills)>>
        before(x) == \/ key(x)[1] < key(r)[1]
                     \/ key(x)[1] = key(r)[1] /\ key(x)[2] < key(r)[2]
        ahead    == Cardinality({i \in DOMAIN sorted : before(sorted[i])})
    IN  SubSeq(sorted, 1, ahead) \o <<r>> \o SubSeq(sorted, ahead + 1, Len(sorted))

\* one step of list.sort with key (0 if high else 1, -len(matched_skills)):
\* the sort is stable, r was after all of sorted in the list
InsertRecommendation(sorted, r) ==
    LET key(x)   == <<IF x.priority = "high" THEN 0 ELSE 1,
                      0 - Len(x.matched_skills)>>
        notAfter(x) == \/ key(x)[1] < key(r)[1]
                       \/ key(x)[1] = key(r)[1] /\ key(x)[2] <= key(r)[2]
        ahead    == Cardinality({i \in DOMAIN sorted : notAfter(sorted[i])})
    IN  SubSeq(sorted, 1, ahead) \o <<r>> \o SubSeq(sorted, ahead + 1, Len(sorted))

RECURSIVE SortRecommendations(_)
SortRecommendations(recs) ==
    IF recs = <<>> THEN <<>>
    ELSE InsertRecommendation(SortRecommendations(SubSeq(recs, 1, Len(recs) - 1)),
                              recs[Len(recs)])

\* recommend_courses of src/project.py and, with a catalog, fallback_courses
\* of src/development.py: the courses that match, sorted, the first five
RecommendCourses(c, skills, catalog) ==
    LET each == [i \in DOMAIN catalog |->
                   LET matched == MatchedSkills(c, skills, catalog[i])
                   IN  [course_name |-> catalog[i].course_name,
                        provider |-> catalog[i].provider,
                        duration_hours |-> catalog[i].duration_hours,
                        cost |-> catalog[i].cost,
                        priority |-> IF Len(matched) >= 2 THEN "high" ELSE "medium",
                        matched_skills |-> matched,
                        reason |-> IF c = "development"
                                   THEN SubSeq(matched, 1, IF Len(matched) < 2
                                                           THEN Len(matched) ELSE 2)
                                   ELSE <<>>]]
        recommendations ==
            SortRecommendations(SelectSeq(each, LAMBDA r : r.matched_skills # <<>>))
    IN  SubSeq(recommendations, 1,
               IF Len(recommendations) < 5 THEN Len(recommendations) ELSE 5)

\* /recommend-courses of src/project.py
RecommendCoursesEndpoint ==
    /\ pc = "received"
    /\ service = "project"
    /\ response' = [status_code |-> 200,
                    total_matches |->
                        Len(RecommendCourses("project", body.skills, COURSE_CATALOG)),
                    courses |->
                        RecommendCourses("project", body.skills, COURSE_CATALOG)]
    /\ pc' = "responded"
    /\ UNCHANGED <<copy, runtime, employees, processed_staff, avg_score, report,
                   service, body, upstream, ai_report, calls, threads>>

\* the requests for /process-employees of src/development.py
ProcessEmployeesRequest ==
    [employees :
       UNION { [1..n ->
                  { [employee_id |-> "E1", employee_name |-> "Ana",
                     seniority_level |-> "Senior", position |-> "Data Engineer"],
                    [employee_id |-> "E2", employee_name |-> "Bo",
                     seniority_level |-> "Junior", position |-> "Designer"] }] :
               n \in 0..MaxStaff }]

\* what the handler gets from outside.  catalog: COURSE_CATALOG as loaded
\* from the catalog file, empty when there is none; answers: for each
\* employee the skills predict_skills_with_ai returns (the model's list, of
\* any JSON values, or the default ones) and the courses the model names
DevelopmentAnswers ==
    [catalog : {<<>>, COURSE_CATALOG},
     answers : [1..MaxStaff ->
        [skills : { <<SkillPool[1], SkillPool[3]>>,
                    SkillPool,
                    <<SkillPool[3], JsonNumber(7)>>,
                    <<SkillPool[8], SkillPool[3], SkillPool[4]>> },
         recs : { <<>>,
                  <<[course_name |-> <<"k", "u", "b", "e", "r", "n", "e", "t", "e", "s", "sp", "m", "a", "s", "t", "e", "r", "y">>, priority |-> "high"],
                    [course_name |-> <<"R", "u", "s", "t", "sp", "P", "r", "i", "m", "e", "r">>, priority |-> "low"]>> }]]]

\* fallback_courses
FallbackCourses(skills, catalog) ==
    IF catalog = <<>>
    THEN <<[course_name |-> <<"G", "e", "n", "e", "r", "a", "l", "sp", "S", "k", "i", "l", "l", "s", "sp", "D", "e", "v", "e", "l", "o", "p", "m", "e", "n", "t">>,
            provider |-> "Internal", duration_hours |-> 10, cost |-> 0,
            priority |-> "medium",
            matched_skills |-> SubSeq(skills, 1, IF Len(skills) < 3
                                                 THEN Len(skills) ELSE 3),
            reason |-> <<>>]>>
    ELSE RecommendCourses("development", skills, catalog)

\* recommend_courses_with_ai: the courses, or raised when ', '.join(skills)
\* meets a skill that is no text.  The courses are the ones the model names,
\* found in the catalog by name (in lower case, then by inclusion) or taken
\* as they are; without any, those of fallback_courses
RecommendCoursesWithAi(skills, catalog, recs) ==
    LET found(rec) ==
            LET same(c)  == Lower(c.course_name) = Lower(rec.course_name)
                fuzzy(c) == \/ IsIn(Lower(c.course_name), Lower(rec.course_name))
                            \/ IsIn(Lower(rec.course_name), Lower(c.course_name))
                first(P(_)) == CHOOSE i \in DOMAIN catalog :
                                  P(catalog[i]) /\ \A j \in 1..(i - 1) : ~P(catalog[j])
            IN  IF \E i \in DOMAIN catalog : same(catalog[i])
                THEN <<catalog[first(same)]>>
                ELSE IF \E i \in DOMAIN catalog : fuzzy(catalog[i])
                THEN <<catalog[first(fuzzy)]>>
                ELSE <<>>
        enriched(rec) ==
            IF found(rec) # <<>>
            THEN [course_name |-> found(rec)[1].course_name,
                  provider |-> found(rec)[1].provider,
                  duration_hours |-> found(rec)[1].duration_hours,
                  cost |-> found(rec)[1].cost,
                  priority |-> rec.priority,
                  matched_skills |->
                      SelectSeq(skills, LAMBDA s :
                          \E k \in DOMAIN found(rec)[1].skills_covered :
                              s.text = found(rec)[1].skills_covered[k]),
                  reason |-> <<>>]
            ELSE [course_name |-> rec.course_name,
                  provider |-> "AI Recommendation",
                  duration_hours |-> 0, cost |-> 0,
                  priority |-> rec.priority,
                  matched_skills |-> <<>>,
                  reason |-> <<>>]
    IN  IF catalog = <<>>
        THEN [raised |-> FALSE, value |-> FallbackCourses(skills, catalog)]
        ELSE IF \E k \in DOMAIN skills : skills[k].kind # "string"
        THEN [raised |-> TRUE, value |-> <<>>]
        ELSE IF recs # <<>>
        THEN [raised |-> FALSE, value |-> [k \in DOMAIN recs |-> enriched(recs[k])]]
        ELSE [raised |-> FALSE, value |-> FallbackCourses(skills, catalog)]

\* the entry of an employee with the skills kept where the courses failed
ProcessEmployeeKeepingSkills(emp, answer, catalog) ==
    LET courses == RecommendCoursesWithAi(answer.skills, catalog, answer.recs)
    IN  IF courses.raised
        THEN [employee_id |-> emp.employee_id, employee_name |-> emp.employee_name,
              position |-> emp.position, seniority_level |-> emp.seniority_level,
              predicted_skills |-> answer.skills, recommended_courses |-> <<>>,
              error |-> "sequence item: expected str instance"]
        ELSE [employee_id |-> emp.employee_id, employee_name |-> emp.employee_name,
              position |-> emp.position, seniority_level |-> emp.seniority_level,
              predicted_skills |-> answer.skills,
              recommended_courses |-> courses.value]

\* the body of the loop of process_employees: the entry of one employee
ProcessEmployee(emp, answer, catalog) ==
    LET courses == RecommendCoursesWithAi(answer.skills, catalog, answer.recs)
    IN  IF courses.raised
        THEN [employee_id |-> emp.employee_id, employee_name |-> emp.employee_name,
              position |-> emp.position, seniority_level |-> emp.seniority_level,
              predicted_skills |-> <<>>, recommended_courses |-> <<>>,
              error |-> "sequence item: expected str instance"]
        ELSE [employee_id |-> emp.employee_id, employee_name |-> emp.employee_name,
              position |-> emp.position, seniority_level |-> emp.seniority_level,
              predicted_skills |-> answer.skills,
              recommended_courses |-> courses.value]

\* /process-employees of src/development.py
ProcessEmployees ==
    /\ pc = "received"
    /\ service = "development"
    /\ response' =
         [status_code |-> 200,
          total_employees |-> Len(body.employees),
          employees |-> [i \in DOMAIN body.employees |->
                           ProcessEmployee(body.employees[i], upstream.answers[i],
                                           upstream.catalog)],
          status |-> "success"]
    /\ pc' = "responded"
    /\ UNCHANGED <<copy, runtime, employees, processed_staff, avg_score, report,
                   service, body, upstream, ai_report, calls, threads>>

----------------------------------------------------------------------------
(* The P&L service of src/profitloss.py: /analyze-pnl sorts the features    *)
(* the language model has judged into those to keep and those to ditch.     *)

MaxItems == 3

\* a key that the item does not have
Missing == [kind |-> "missing", value |-> 0, text |-> <<>>]

PnLRequest ==
    [features : { <<>>,
                  <<[feature |-> "Search", revenue |-> 900, cost |-> 400,
                     net_profit |-> 500]>> }]

\* what call_watsonx returns: nothing, text that is no JSON, or a JSON
\* object whose analysis is a list of items
PnLAnswers ==
    { [kind |-> "none", analysis |-> <<>>], [kind |-> "text", analysis |-> <<>>] }
    \cup
    [kind : {"json"},
     analysis : UNION { [1..n ->
        { [name |-> JsonString(<<"A">>), action |-> JsonString(<<"K", "e", "e", "p">>),
           metric |-> JsonString(<<"$">>)],
          [name |-> JsonString(<<"B">>), action |-> JsonString(<<"K", "E", "E", "P">>),
           metric |-> Missing],
          [name |-> JsonString(<<"C">>), action |-> JsonString(<<"D", "i", "t", "c", "h">>),
           metric |-> JsonString(<<"$">>)],
          [name |-> Missing, action |-> Missing,
           metric |-> JsonString(<<"$">>)],
          [name |-> JsonString(<<"E">>), action |-> JsonString(<<"k", "e", "e", "p", "e", "r">>),
           metric |-> JsonString(<<"$">>)],
          [name |-> JsonString(<<"F">>), action |-> JsonNull,
           metric |-> JsonString(<<"$">>)],
          [name |-> JsonString(<<"G">>), action |-> JsonString(<<"k", "e", "e", "p">>),
           metric |-> JsonNull] }] : n \in 0..MaxItems }]

\* FeatureAdvice(...) of an item, with the defaults for the missing keys;
\* the fields are validated as str
FeatureAdvice(item) ==
    LET or(field, default) == IF field.kind = "missing"
                              THEN JsonString(default) ELSE field
    IN  [feature_name     |-> or(item.name, <<"U", "n", "k", "n", "o", "w", "n">>),
         status           |-> or(item.action, <<"R", "e", "v", "i", "e", "w">>),
         financial_metric |-> or(item.metric, <<"N", "/", "A">>)]

\* the answer of analyze_pnl to a request, given what the model answers
Analyzed(request, answer) ==
    LET advice == [k \in DOMAIN answer.analysis |-> FeatureAdvice(answer.analysis[k])]
        valid(a) == /\ a.feature_name.kind = "string"
                    /\ a.status.kind = "string"
                    /\ a.financial_metric.kind = "string"
        keep(a)  == Lower(a.status.text) = <<"k", "e", "e", "p">>
    IN  IF request.features = <<>>
        THEN [status_code |-> 400, detail |-> "No features provided"]
        ELSE IF answer.kind = "none"
        THEN [status_code |-> 502, detail |-> "Watsonx AI failed to analyze data"]
        ELSE IF answer.kind = "text"
        THEN [status_code |-> 200, features_to_keep |-> <<>>,
              features_to_ditch |-> <<>>]
        ELSE IF \E k \in DOMAIN advice : ~valid(advice[k])
        THEN [status_code |-> 500, detail |-> "validation error for FeatureAdvice"]
        ELSE [status_code |-> 200,
              features_to_keep  |-> SelectSeq(advice, keep),
              features_to_ditch |-> SelectSeq(advice, LAMBDA a : ~keep(a))]

\* /analyze-pnl
AnalyzePnl ==
    /\ pc = "received"
    /\ service = "profitloss"
    /\ response' = Analyzed(body, upstream)
    /\ pc' = "responded"
    /\ UNCHANGED <<copy, runtime, employees, processed_staff, avg_score, report,
                   service, body, upstream, ai_report, calls, threads>>

\* the services that answer a request from its body alone
InitAgents ==
    /\ copy = "architect"
    /\ runtime = "naive"
    /\ employees = <<>>
    /\ pc = "received"
    /\ processed_staff = <<>>
    /\ avg_score = Zero
    /\ report = NoReport
    /\ \/ /\ service = "techstack"
          /\ body \in HarmonizationRequest
          /\ upstream \in HarmonizationAnswers
       \/ /\ service = "project"
          /\ body \in CourseRecommendationRequest
          /\ upstream = [framework |-> "none"]
       \/ /\ service = "development"
          /\ body \in ProcessEmployeesRequest
          /\ upstream \in DevelopmentAnswers
       \/ /\ service = "profitloss"
          /\ body \in PnLRequest
          /\ upstream \in PnLAnswers
    /\ ai_report = None_
    /\ calls = NoCalls
    /\ response = NoResponse
    /\ NoThreads

NextAgents ==
    \/ HarmonizeTechStack
    \/ RecommendCoursesEndpoint
    \/ ProcessEmployees
    \/ AnalyzePnl

SpecAgents == InitAgents /\ [][NextAgents]_vars

----------------------------------------------------------------------------
(* Properties                                                               *)

Done == pc = "done"

Stats == report.statistics

HqRoster == report.allocation_summary.headquarters_roster

RemoteRoster == report.allocation_summary.remote_roster

Ranked == 1..Len(processed_staff)

\* the request's record a scored record was made from (names are positions)
Source(p) == employees[p.name]

Min(a, b) == IF a < b THEN a ELSE b

\* C1: for every input list hq_count + remote_count equals total_employees,
\* which is the number of scored records; hq_count is at most 20; and the
\* two rosters are hq_count and remote_count long.
C1_CountsAddUp ==
    Done => /\ Stats.hq_count + Stats.remote_count = Stats.total_employees
            /\ Stats.total_employees = Len(processed_staff)
            /\ Stats.hq_count <= 20
            /\ Len(HqRoster) = Stats.hq_count
            /\ Len(RemoteRoster) = Stats.remote_count

\* a batch that overflows the headquarters by two records
C1_Witness ==
    Done /\ Stats.total_employees = 22 /\ Stats.hq_count = 20
         /\ Len(RemoteRoster) = 2

\* C2: the ranking holds the scored records by descending final_score, and
\* records of equal final_score keep the relative order of the input list;
\* the rosters (headquarters then remote) and top_talent_hq follow it.
C2_RankingDescendingStable ==
    Done => /\ \A i, j \in Ranked :
                 i < j => \/ processed_staff[i].final_score
                               > processed_staff[j].final_score
                          \/ /\ processed_staff[i].final_score
                                  = processed_staff[j].final_score
                             /\ processed_staff[i].name < processed_staff[j].name
            /\ HqRoster \o RemoteRoster
                 = [i \in Ranked |-> processed_staff[i].name]
            /\ \A i \in 1..Len(report.top_talent_hq) :
                 report.top_talent_hq[i].name = processed_staff[i].name

\* two records tie although a record of another score stood between them in
\* the input, and a later record outranks an earlier one
C2_Witness ==
    /\ Done
    /\ \E i, j, k \in Ranked :
         /\ i < j
         /\ processed_staff[i].final_score = processed_staff[j].final_score
         /\ processed_staff[i].name < processed_staff[k].name
         /\ processed_staff[k].name < processed_staff[j].name
         /\ processed_staff[k].final_score > processed_staff[i].final_score
         /\ k < i

\* C3: the headquarters roster is the first min(20, n) records of the
\* ranking, the remote roster the remaining ones in ranking order; the remote
\* roster is non-empty only when n > 20 and no remote member outscores a
\* headquarters member.
C3_AllocationIsPrefix ==
    Done => LET n == Len(processed_staff)
                h == Min(20, n)
            IN  /\ HqRoster = [i \in 1..h |-> processed_staff[i].name]
                /\ RemoteRoster = [i \in 1..(n - h) |-> processed_staff[h + i].name]
                /\ (RemoteRoster # <<>> => n > 20)
                /\ \A i \in 1..h : \A j \in (h + 1)..n :
                      processed_staff[j].final_score
                          <= processed_staff[i].final_score

\* 21 scored records of at least two different scores
C3_Witness ==
    /\ Done
    /\ Len(processed_staff) = 21
    /\ Len(HqRoster) = 20
    /\ Len(RemoteRoster) = 1
    /\ processed_staff[21].final_score < processed_staff[1].final_score


\* the report's risk_flags hold an entry for the scored record p
Flagged(p) ==
    \E k \in 1..Len(report.risk_flags) : report.risk_flags[k].name = p.name

RECURSIVE TotalScore(_)
TotalScore(staff) ==
    IF staff = <<>> THEN 0
    ELSE staff[Len(staff)].final_score
           + TotalScore(SubSeq(staff, 1, Len(staff) - 1))

\* C4: a record is risk-flagged if and only if its final_score is strictly
\* below the mean final_score of the scored records and its salary is
\* strictly above 100000; so a salary of exactly 100000 is never flagged and
\* a final_score equal to the mean is never flagged.  (final_score < mean is
\* stated on the hundredths: n * final_score < sum of the final_scores.)
C4_FlaggedIffBelowMeanAndHighSalary ==
    Done => \A i \in Ranked :
              LET p == processed_staff[i]
              IN  Flagged(p) <=>
                    /\ Len(processed_staff) * p.final_score
                          < TotalScore(processed_staff)
                    /\ p.salary > 100000

\* the talent and education scores the engine gave to the source of p
TalentOf(p) == TalentScore(copy, Source(p).talent).score

EducationOf(p) == EducationScore(copy, Source(p).studies)

\* the exact weighted sum rating*0.5 + t*0.3 + e*0.2 for the rating of p, in
\* units of 1/10000 (the rating is held in hundredths)
Weighted(p, t, e) == 50 * p.raw_rating + 3000 * t + 2000 * e

ExactWeighted(p) == Weighted(p, TalentOf(p), EducationOf(p))

\* the final_score of p is the weighted sum for the talent score t and the
\* education score e rounded to 2 decimal places: a whole number of
\* hundredths within half a hundredth of it
RoundedFrom(p, t, e) ==
    LET d == 100 * p.final_score - Weighted(p, t, e)
    IN  d <= 50 /\ 0 - 50 <= d

\* C5: every final_score is rating*0.5 + talentScore*0.3 + educationScore*0.2
\* rounded to 2 decimal places: it is a whole number of hundredths that lies
\* within half a hundredth of the exact weighted sum.
C5_FinalScoreIsRoundedWeightedSum ==
    Done => \A i \in Ranked :
              LET p == processed_staff[i]
              IN  /\ p.raw_rating = Source(p).rating
                  /\ RoundedFrom(p, TalentOf(p), EducationOf(p))

\* a record whose weighted sum is not a whole number of hundredths: rating
\* 3.25, talent 5 and education 4 give 3.925, scored 3.92 or 3.93
C5_Witness ==
    /\ Done
    /\ \E i \in Ranked : /\ ExactWeighted(processed_staff[i]) = 39250
                         /\ processed_staff[i].final_score \in {392, 393}

\* C6: a record whose rating lies in [0, 5] has its final_score in
\* [0.5, 5.0], whatever its talent and studies.
C6_FinalScoreInScale ==
    Done => \A i \in Ranked :
              (processed_staff[i].raw_rating >= 0
                 /\ processed_staff[i].raw_rating <= 500)
              => /\ processed_staff[i].final_score >= 50
                 /\ processed_staff[i].final_score <= 500

\* a rating of 0 with an unknown talent and an unknown education label
C6_Witness ==
    /\ Done
    /\ \E i \in Ranked :
         /\ processed_staff[i].raw_rating = 0
         /\ processed_staff[i].final_score = 50
         /\ Source(processed_staff[i]).studies = "MBA"
         /\ Source(processed_staff[i]).talent
              = TextTalent(<<"E", "x", "p", "e", "r", "t">>)

IsTopRecord(emp) ==
    /\ emp.rating = 500
    /\ emp.talent = TextTalent(<<"H", "i", "g", "h">>)
    /\ emp.studies = "PhD"

\* C7: a record with rating 5.0, talent "High" and studies "PhD" is scored,
\* and its final_score is exactly 5.0.
C7_TopRecordScoresFive ==
    Done => \A n \in 1..Len(employees) :
              IsTopRecord(employees[n])
              => \E i \in Ranked : /\ processed_staff[i].name = employees[n].name
                                   /\ processed_staff[i].final_score = 500

C7_Witness ==
    /\ Done
    /\ \E i \in Ranked : /\ IsTopRecord(Source(processed_staff[i]))
                         /\ processed_staff[i].final_score = 500

\* the talent score the claim gives to a talent value
ClaimedTalentScore(talent) ==
    LET text  == Str(talent)
        lower == [i \in 1..Len(text) |-> ToLower(text[i])]
    IN  CASE lower = <<"h", "i", "g", "h">> -> 5
          [] lower = <<"m", "e", "d", "i", "u", "m">> -> 3
          [] lower = <<"l", "o", "w">> -> 1
          [] text \in {<<"1">>, <<"2">>, <<"3">>, <<"4">>, <<"5">>} -> IntOf(text)
          [] OTHER -> 1

\* C8: High, Medium and Low score 5, 3 and 1 whatever their letter case, a
\* digit 1..5 (text or int) scores its value, every other talent scores 1,
\* and no talent value causes its record to be rejected: every record of the
\* request is scored, with the final_score that this talent score gives.
C8_TalentNormalization ==
    Done => \A n \in 1..Len(employees) :
              \E i \in Ranked :
                /\ processed_staff[i].name = employees[n].name
                /\ RoundedFrom(processed_staff[i],
                               ClaimedTalentScore(employees[n].talent),
                               EducationOf(processed_staff[i]))

\* the final_score of p is the one a talent score out of scores gives
TalentScoreAmong(p, scores) ==
    \E t \in scores : RoundedFrom(p, t, EducationOf(p))

\* C9, as claimed: the talent score used in the weighted formula is always
\* one of 1, 3 or 5.
C9_TalentScoreIsOneThreeFive ==
    Done => \A i \in Ranked : TalentScoreAmong(processed_staff[i], {1, 3, 5})

\* C9, amended: the talent score used in the weighted formula is always one
\* of 1, 2, 3, 4 or 5.
C9_TalentScoreIsOneToFive ==
    Done => \A i \in Ranked : TalentScoreAmong(processed_staff[i], 1..5)

\* a record whose talent is the numeral 4 is scored with the talent score 4
C9_Witness ==
    /\ Done
    /\ \E i \in Ranked :
         /\ Source(processed_staff[i]).talent = TextTalent(<<"4">>)
         /\ TalentScoreAmong(processed_staff[i], {4})
         /\ ~TalentScoreAmong(processed_staff[i], {1, 3, 5})

\* the education score the claim gives to a studies label
ClaimedEducationScore(studies) ==
    CASE studies \in {"PhD", "Doctorate", "MD", "JD"} -> 5
      [] studies \in {"Master", "Masters", "MSc"} -> 4
      [] studies \in {"Bachelor", "Bachelors", "BSc", "BSN"} -> 3
      [] studies = "Associate" -> 2
      [] studies = "High School" -> 1
      [] OTHER -> 1

\* C10: in src/architect.py the education score is an exact, case-sensitive
\* table lookup with default 1: every record gets the final_score that the
\* claimed table gives.
C10_EducationNormalization ==
    (Done /\ copy = "architect") =>
        \A i \in Ranked :
           LET p == processed_staff[i]
           IN  RoundedFrom(p, TalentOf(p),
                           ClaimedEducationScore(Source(p).studies))

\* the differently-cased "phd" scores 1, not 5
C10_Witness ==
    /\ Done
    /\ copy = "architect"
    /\ \E i \in Ranked :
         LET p == processed_staff[i]
         IN  /\ Source(p).studies = "phd"
             /\ RoundedFrom(p, TalentOf(p), 1)
             /\ ~RoundedFrom(p, TalentOf(p), 5)

\* C11: for an empty employee list the engine returns, without error, the
\* report with total_employees 0, average_merit_score 0.0, hq_count 0,
\* remote_count 0, empty rosters, empty top_talent_hq and empty risk_flags.
C11_EmptyInputReport ==
    (Done /\ employees = <<>>) =>
        report = [status |-> "success",
                  statistics |-> [total_employees     |-> 0,
                                  average_merit_score |-> 0,
                                  hq_count            |-> 0,
                                  remote_count        |-> 0],
                  top_talent_hq |-> <<>>,
                  allocation_summary |-> [headquarters_roster |-> <<>>,
                                          remote_roster       |-> <<>>],
                  risk_flags |-> <<>>]

\* the engine has answered the empty list
C11_Witness ==
    /\ Done
    /\ employees = <<>>
    /\ avg_score = Zero
    /\ Stats.total_employees = 0

ReportKeys ==
    {"status", "statistics", "top_talent_hq", "allocation_summary", "risk_flags"}

\* C13: for every input list the engine returns a report with status
\* "success" that holds the keys statistics, top_talent_hq,
\* allocation_summary and risk_flags, also when every record was skipped.
C13_AlwaysWellFormedReport ==
    Done => /\ DOMAIN report = ReportKeys
            /\ report.status = "success"
            /\ DOMAIN report.statistics
                 = {"total_employees", "average_merit_score",
                    "hq_count", "remote_count"}
            /\ DOMAIN report.allocation_summary
                 = {"headquarters_roster", "remote_roster"}

\* a non-empty list of which every record was skipped
C13_Witness ==
    /\ Done
    /\ employees # <<>>
    /\ processed_staff = <<>>
    /\ report.status = "success"
    /\ Stats.total_employees = 0

\* the number of records of the request whose scoring did not raise
NotSkipped ==
    Cardinality({n \in 1..Len(employees) :
                    ~TalentScore(copy, employees[n].talent).raised})

\* a is the mean of the final_scores of staff rounded to 2 decimal places:
\* a whole number of hundredths within half a hundredth of sum / n
RoundedMean(a, staff) ==
    LET d == a * Len(staff) - TotalScore(staff)
    IN  2 * d <= Len(staff) /\ 0 - Len(staff) <= 2 * d

\* C14: total_employees is the number of scored (non-skipped) records and
\* average_merit_score is the mean of their rounded final_scores, itself
\* rounded to 2 decimal places.
C14_TotalAndAverage ==
    Done => /\ Stats.total_employees = Len(processed_staff)
            /\ Stats.total_employees = NotSkipped
            /\ RoundedMean(Stats.average_merit_score, processed_staff)

\* more records than the headquarters hold, with a mean that is not a whole
\* number of hundredths
C14_Witness ==
    /\ Done
    /\ Len(processed_staff) > 20
    /\ TotalScore(processed_staff) % Len(processed_staff) # 0
    /\ Stats.average_merit_score * Len(processed_staff)
         # TotalScore(processed_staff)

\* C15: top_talent_hq holds exactly min(3, n) entries for n scored records:
\* the first records of the ranking in ranking order, each with only the
\* record's name and its final_score (as score).
C15_TopTalentIsHeadOfRanking ==
    Done => report.top_talent_hq
              = [i \in 1..Min(3, Len(processed_staff)) |->
                    [name  |-> processed_staff[i].name,
                     score |-> processed_staff[i].final_score]]

\* more than three scored records of which three are listed, the first
\* outscoring the third
C15_Witness ==
    /\ Done
    /\ Len(processed_staff) > 3
    /\ Len(report.top_talent_hq) = 3
    /\ report.top_talent_hq[1].score > report.top_talent_hq[3].score

\* C16: in every copy of the engine each entry of risk_flags consists of a
\* flagged record's name, role, salary and merit_score (that record's
\* final_score) and the discrepancy text "High Salary / Low Merit".
C16_RiskFlagEntryShape ==
    Done => \A k \in 1..Len(report.risk_flags) :
              \E i \in Ranked :
                 report.risk_flags[k]
                   = [name        |-> processed_staff[i].name,
                      role        |-> processed_staff[i].role,
                      salary      |-> processed_staff[i].salary,
                      merit_score |-> processed_staff[i].final_score,
                      discrepancy |-> "High Salary / Low Merit"]

\* the service has answered the POST
Responded == pc = "responded"

\* the places of the submitted records whose rating is not numeric
NonNumericAt(b) == {i \in 1..Len(b) : ~ValidRating(b[i].rating)}

\* the report of the engine for the submitted records rs
ReportFor(rs) ==
    LET staff == SortRanked(ScoreAll(copy, [i \in 1..Len(rs) |->
                                               ParseRecord(rs[i])]))
    IN  BuildReport(copy, staff, AvgScore(staff, runtime))

\* C12: when a batch submitted to the scoring service holds a record whose
\* rating is not numeric, the batch is not aborted: that record is left out
\* and the other records are scored, ranked, allocated and risk-checked as
\* if it had not been in the batch.
C12_MalformedRecordExcluded ==
    LET others == SelectSeq(body, LAMBDA r : ValidRating(r.rating))
    IN  (/\ Responded
         /\ NonNumericAt(body) # {}
         /\ InvalidAt(body) = NonNumericAt(body)
         /\ others # <<>>)
        => /\ response.status_code = 200
           /\ response.content.raw_algorithm_output = ReportFor(others)

\* a submitted record without an employee id or without a non-empty name
Unidentified(r) ==
    \/ r.employee_id.kind = "null"
    \/ r.name.kind = "null"
    \/ r.name.text = <<>>

\* the names listed in the two rosters of the answer
RosterOf(content) ==
    content.raw_algorithm_output.allocation_summary.headquarters_roster
      \o content.raw_algorithm_output.allocation_summary.remote_roster

\* C18, as claimed: a record is valid only if its id and its name are both
\* non-empty; a record with a missing employee id or an empty name is not
\* scored and is not counted in total_employees nor listed in the rosters.
C18_UnidentifiedRecordNotScored ==
    (Responded /\ response.status_code = 200) =>
        /\ response.content.statistics.total_employees
             = Cardinality({i \in 1..Len(body) : ~Unidentified(body[i])})
        /\ \A k \in 1..Len(RosterOf(response.content)) :
              RosterOf(response.content)[k] # <<>>

\* C18, amended: a record needs neither an employee id nor a non-empty name
\* to be valid; when every record of a batch has a text as name and a
\* numeric rating, every record is scored, with or without an employee id
\* and with or without an empty name, is counted in total_employees and is
\* listed in the rosters under its name.
C18_UnidentifiedRecordScored ==
    (/\ Responded
     /\ body # <<>>
     /\ \A i \in 1..Len(body) : body[i].name.kind = "string"
     /\ NonNumericAt(body) = {})
    => /\ response.status_code = 200
       /\ response.content.statistics.total_employees = Len(body)
       /\ Len(RosterOf(response.content)) = Len(body)
       /\ \A i \in 1..Len(body) :
             Cardinality({k \in 1..Len(body) :
                             RosterOf(response.content)[k] = body[i].name.text})
               = Cardinality({k \in 1..Len(body) :
                                 body[k].name.text = body[i].name.text})

\* a batch with a record that has neither an employee id nor a name, and
\* that record is counted and listed
C18_Witness ==
    /\ Responded
    /\ \E i \in 1..Len(body) : /\ body[i].employee_id = JsonNull
                               /\ body[i].name = JsonString(<<>>)
    /\ \E i \in 1..Len(body) : ~Unidentified(body[i])
    /\ response.status_code = 200
    /\ response.content.statistics.total_employees = 2
    /\ \E k \in 1..2 : RosterOf(response.content)[k] = <<>>

\* C19: a POST to /generate-strategy whose employees list is empty is
\* answered with status 400 and detail "No employee data provided", and
\* neither the scoring algorithm nor the LLM is invoked.
C19_EmptyListIsBadRequest ==
    (Responded /\ body = <<>>) =>
        /\ response.status_code = 400
        /\ response.content.detail = <<"No employee data provided">>
        /\ calls = NoCalls

\* C20: when the LLM call yields no text (None or an empty string) the
\* answer still has status "success", the statistics of the engine and its
\* complete report as raw_algorithm_output, and the fixed text "Error: AI
\* generation failed. Please check API Key." as strategic_report; whatever
\* the identity server and the LLM server do, a batch that reached the
\* handler is answered with status 200.
C20_LlmFailureStillSucceeds ==
    (Responded /\ body # <<>> /\ InvalidAt(body) = {}) =>
        /\ response.status_code = 200
        /\ response.content.status = "success"
        /\ response.content.statistics = ReportFor(body).statistics
        /\ response.content.raw_algorithm_output = ReportFor(body)
        /\ calls = [engine |-> 1, llm |-> 1]
        /\ Falsy(ai_report)
             => response.content.strategic_report = Text(AI_FAILED, <<>>)
        /\ (/\ upstream.token = "granted"
            /\ upstream.generation.kind \in {"malformed", "timeout"})
             => ai_report = None_

\* the LLM answered with white space only: the helper returns "", and the
\* answer carries the fixed text
C20_Witness ==
    /\ Responded
    /\ upstream.token = "granted"
    /\ upstream.generation = [kind |-> "ok", text |-> <<"sp", "sp">>]
    /\ ai_report = Text("", <<>>)
    /\ response.status_code = 200
    /\ response.content.strategic_report = Text(AI_FAILED, <<>>)
    /\ response.content.statistics.total_employees = 2

\* the report of the engine for the list emps when it runs alone
Alone(emps) ==
    LET staff == SortRanked(ScoreAll(copy, emps))
    IN  BuildReport(copy, staff, AvgScore(staff, runtime))

\* C17: under any interleaving of concurrent invocations every invocation
\* returns the report it returns when run alone on its input, no invocation
\* changes its input list, and no invocation changes what another one
\* works on: at every moment the list an invocation builds holds the
\* records of the part of its own input it has passed, and nothing else.
C17_ConcurrentInvocationsIndependent ==
    pc = "concurrent" =>
      \A p \in Invocations :
         LET my == invocations[p]
         IN  /\ heap[my.input] = my.given
             /\ my.pc = "loop"
                  => heap[my.staff]
                       = ScoreAll(copy, SubSeq(my.given, 1, my.i - 1))
             /\ my.pc \in {"ranked", "averaged", "returned"}
                  => heap[my.staff] = SortRanked(ScoreAll(copy, my.given))
             /\ my.pc = "returned" => my.result = Alone(my.given)

\* two invocations were given the same list object, one has returned its
\* report while the other is in the middle of its loop
C17_Witness ==
    /\ pc = "concurrent"
    /\ invocations[1].input = invocations[2].input
    /\ Len(invocations[1].given) = 2
    /\ invocations[1].pc = "returned"
    /\ invocations[1].result.statistics.total_employees = 2
    /\ invocations[2].pc = "loop"
    /\ invocations[2].i = 2

\* the latest /api/chat request, once one was served
Asked == pc = "chat" /\ chat # <<>>

\* C21: over any sequence of /api/chat requests a thread-creation call is
\* made only while CHAT_SESSION.thread_id is null; once a creation has
\* succeeded the stored id never changes again, and every later request that
\* is run is run on that id.
C21_ThreadCreatedOnceAndReused ==
    [][ pc = "chat" =>
          /\ chat'[1].create_called => CHAT_SESSION.thread_id = "None"
          /\ CHAT_SESSION.thread_id # "None" =>
               /\ CHAT_SESSION'.thread_id = CHAT_SESSION.thread_id
               /\ chat'[1].run_thread \in {"None", CHAT_SESSION.thread_id} ]_vars

\* a request was run on the remembered thread although the threads API
\* would have handed out another one
C21_Witness ==
    /\ Asked
    /\ chat[1].thread_before \in ThreadIds
    /\ chat[1].run_thread = chat[1].thread_before
    /\ CHAT_SESSION.thread_id = chat[1].thread_before
    /\ ~chat[1].created.raised
    /\ chat[1].created.status_code = 200
    /\ chat[1].created.id \in ThreadIds \ {chat[1].thread_before}

\* the identity server gave no token
TokenFailed(c) == c.iam.raised \/ c.iam.access_token = "None"

\* the threads API was called and gave no thread
CreationFailed(c) ==
    /\ c.create_called
    /\ \/ c.created.raised
       \/ c.created.status_code \notin {200, 201}
       \/ c.created.id = "None"

\* C22: chat_endpoint fetches the token, then gets or creates the thread,
\* then submits the run: without a token no thread is created and no run is
\* submitted; when the creation fails (exception, status other than 200 and
\* 201) thread_id stays null, no run is submitted and the answer is an error
\* text; and the request after a failed creation tries the creation again.
C22_TokenThenThreadThenRun ==
    [][ pc = "chat" =>
          LET c == chat'[1]
          IN  /\ TokenFailed(c) =>
                   /\ ~c.create_called
                   /\ c.run_thread = "None"
                   /\ CHAT_SESSION' = CHAT_SESSION
                   /\ c.response = AUTH_FAILED
              /\ CreationFailed(c) =>
                   /\ ~TokenFailed(c)
                   /\ CHAT_SESSION'.thread_id = "None"
                   /\ c.run_thread = "None"
                   /\ c.response = THREAD_FAILED
              /\ c.run_thread # "None" =>
                   /\ ~TokenFailed(c)
                   /\ CHAT_SESSION'.thread_id = c.run_thread
              /\ (chat # <<>> /\ CreationFailed(chat[1]) /\ ~TokenFailed(c))
                   => c.create_called ]_vars

\* a creation that was answered with a 404 carrying an id: nothing is
\* remembered and the request is answered with the thread error
C22_Witness ==
    /\ Asked
    /\ CreationFailed(chat[1])
    /\ chat[1].created.status_code = 404
    /\ chat[1].created.id \in ThreadIds
    /\ CHAT_SESSION.thread_id = "None"
    /\ chat[1].response = THREAD_FAILED

\* the recommendations of the answer to a /harmonize-tech-stack request
Migrations ==
    { k \in DOMAIN response.recommendations :
        response.recommendations[k].action = "MIGRATE" }

\* the effective monthly price of a tool of the request, in hundredths
EffectivePrice(name) ==
    LET all_invoices == body.company_a_invoices \o body.company_b_invoices
    IN  IF upstream.web[name] > 0 THEN upstream.web[name]
        ELSE ToolItem(all_invoices, name).internal_cost

\* C23: in every MIGRATE recommendation the tool kept has an effective
\* monthly price no greater than that of the tool dropped, the two tools are
\* distinct, and estimated_annual_savings is the price difference times 100
\* times 12 and is not negative.
C23_MigrateKeepsTheCheaperTool ==
    (pc = "responded" /\ service = "techstack") =>
        \A k \in Migrations :
            LET r == response.recommendations[k]
            IN  /\ EffectivePrice(r.tool_to_keep) <= EffectivePrice(r.tool_to_drop)
                /\ r.tool_to_keep # r.tool_to_drop
                /\ r.estimated_annual_savings
                     = (EffectivePrice(r.tool_to_drop)
                          - EffectivePrice(r.tool_to_keep)) * 100 * 12
                /\ r.estimated_annual_savings >= 0

\* a migration between a tool priced by the web and a dearer one priced by
\* its invoice, with savings to make
C23_Witness ==
    /\ pc = "responded"
    /\ service = "techstack"
    /\ \E k \in Migrations :
         LET r == response.recommendations[k]
         IN  /\ upstream.web[r.tool_to_keep] > 0
             /\ upstream.web[r.tool_to_drop] = 0
             /\ r.estimated_annual_savings > 0

\* the employees whose courses could not be recommended: with a catalog, a
\* predicted skill that is no text stops the recommender
FailedAt(i) ==
    /\ upstream.catalog # <<>>
    /\ \E k \in DOMAIN upstream.answers[i].skills :
          upstream.answers[i].skills[k].kind # "string"

\* C24: process_employees returns one entry per employee of the request, in
\* the order of the request, and their number as total_employees; an
\* employee whose processing fails gets an entry with empty
\* predicted_skills and recommended_courses and an error, and the other
\* employees get the entries they would get without that failure.
C24_OneEntryPerEmployee ==
    (pc = "responded" /\ service = "development") =>
        /\ response.status_code = 200
        /\ response.total_employees = Len(body.employees)
        /\ Len(response.employees) = Len(body.employees)
        /\ \A i \in DOMAIN body.employees :
             LET entry == response.employees[i]
                 emp   == body.employees[i]
                 given == upstream.answers[i]
             IN  /\ entry.employee_id = emp.employee_id
                 /\ entry.employee_name = emp.employee_name
                 /\ entry.position = emp.position
                 /\ entry.seniority_level = emp.seniority_level
                 /\ IF FailedAt(i)
                    THEN /\ entry.predicted_skills = <<>>
                         /\ entry.recommended_courses = <<>>
                         /\ "error" \in DOMAIN entry
                    ELSE /\ "error" \notin DOMAIN entry
                         /\ entry.predicted_skills = given.skills
                         /\ entry.recommended_courses =
                              RecommendCoursesWithAi(given.skills, upstream.catalog,
                                                     given.recs).value

\* the first of two employees failed, the second got courses
C24_Witness ==
    /\ pc = "responded"
    /\ service = "development"
    /\ Len(body.employees) = 2
    /\ FailedAt(1)
    /\ ~FailedAt(2)
    /\ "error" \in DOMAIN response.employees[1]
    /\ response.employees[2].recommended_courses # <<>>

\* the place of a recommended course in the catalog
CatalogIndex(catalog, r) ==
    CHOOSE i \in DOMAIN catalog : catalog[i].course_name = r.course_name

\* at most five courses, each matching a requested skill, the high ones
\* (two or more matched skills) first, then by the number of matched skills,
\* then in the order of the catalog
CoursesInOrder(skills, catalog, courses) ==
    /\ Len(courses) <= 5
    /\ \A i \in DOMAIN courses :
         /\ courses[i].matched_skills # <<>>
         /\ \A m \in DOMAIN courses[i].matched_skills :
              LET s == courses[i].matched_skills[m]
                  covered == catalog[CatalogIndex(catalog, courses[i])].skills_covered
              IN  /\ \E k \in DOMAIN skills : skills[k] = s
                  /\ \E k \in DOMAIN covered : Lower(covered[k]) = Lower(s.text)
         /\ courses[i].priority \in {"high", "medium"}
         /\ courses[i].priority = "high" <=> Len(courses[i].matched_skills) >= 2
    /\ \A i, j \in DOMAIN courses :
         i < j =>
           /\ ~(courses[i].priority = "medium" /\ courses[j].priority = "high")
           /\ courses[i].priority = courses[j].priority =>
                Len(courses[i].matched_skills) >= Len(courses[j].matched_skills)
           /\ Len(courses[i].matched_skills) = Len(courses[j].matched_skills) =>
                CatalogIndex(catalog, courses[i]) < CatalogIndex(catalog, courses[j])

\* C25: with a non-empty catalog the skill-matching recommender (of
\* src/project.py, and the fallback of src/development.py) returns at most 5
\* courses, each matching a requested skill, every "high" course (2 or more
\* matched skills) before every "medium" one, within a priority the courses
\* with more matched skills first, ties in the order of the catalog.
C25_RecommendedCoursesInOrder ==
    /\ (pc = "responded" /\ service = "project") =>
          CoursesInOrder(body.skills, COURSE_CATALOG, response.courses)
    /\ (pc = "responded" /\ service = "development") =>
          \A i \in DOMAIN body.employees :
             (upstream.catalog # <<>> /\ ~FailedAt(i) /\ upstream.answers[i].recs = <<>>)
               => CoursesInOrder(upstream.answers[i].skills, upstream.catalog,
                                 response.employees[i].recommended_courses)

\* five courses returned although more match, a later course of the catalog
\* put first for its two matched skills
C25_Witness ==
    /\ pc = "responded"
    /\ service = "project"
    /\ Len(response.courses) = 5
    /\ Cardinality({i \in DOMAIN COURSE_CATALOG :
                      MatchedSkills("project", body.skills, COURSE_CATALOG[i]) # <<>>}) > 5
    /\ response.courses[1].priority = "high"
    /\ response.courses[5].priority = "medium"
    /\ CatalogIndex(COURSE_CATALOG, response.courses[1])
         > CatalogIndex(COURSE_CATALOG, response.courses[2])

\* C26: in analyze_pnl every item of the model's analysis list is put in
\* exactly one of features_to_keep and features_to_ditch, in the order of
\* the list: in features_to_keep when its action is "keep" whatever the case
\* of the letters, and otherwise (also without an action, the status then
\* being "Review") in features_to_ditch.
C26_EveryItemKeptOrDitched ==
    (/\ pc = "responded"
     /\ service = "profitloss"
     /\ body.features # <<>>
     /\ upstream.kind = "json") =>
        LET isKeep(item) == /\ item.action.kind = "string"
                            /\ Lower(item.action.text) = <<"k", "e", "e", "p">>
            nameOf(item) == IF item.name.kind = "missing"
                            THEN JsonString(<<"U", "n", "k", "n", "o", "w", "n">>) ELSE item.name
            kept     == SelectSeq(upstream.analysis, isKeep)
            ditched  == SelectSeq(upstream.analysis, LAMBDA item : ~isKeep(item))
        IN  /\ response.status_code = 200
            /\ Len(response.features_to_keep) = Len(kept)
            /\ Len(response.features_to_ditch) = Len(ditched)
            /\ \A k \in DOMAIN kept :
                 response.features_to_keep[k].feature_name = nameOf(kept[k])
            /\ \A k \in DOMAIN ditched :
                 /\ response.features_to_ditch[k].feature_name = nameOf(ditched[k])
                 /\ ditched[k].action.kind = "missing" =>
                      response.features_to_ditch[k].status = JsonString(<<"R", "e", "v", "i", "e", "w">>)

\* the report the copy c of the engine returns for the request at hand
ReportOfCopy(c) ==
    LET staff == SortRanked(ScoreAll(c, employees))
    IN  BuildReport(c, staff, AvgScore(staff, runtime))

\* C27: the copies of execute_scoring_algorithm are observationally
\* equivalent: for every input list they return the same report.
C27_CopiesReturnSameReport ==
    Done => \A c \in Copies : report = ReportOfCopy(c)

\* the score an entry of risk_flags shows: merit_score, or final_score where
\* the entry is the scored record itself
EntryScore(e) ==
    IF "merit_score" \in DOMAIN e THEN e.merit_score ELSE e.final_score

\* C28, as claimed: every risk_flags entry has a merit_score strictly lower
\* than the reported (rounded) average_merit_score.
C28_FlaggedBelowReportedAverage ==
    Done => \A k \in 1..Len(report.risk_flags) :
              EntryScore(report.risk_flags[k]) < Stats.average_merit_score

\* C28, amended: every risk_flags entry has a score no greater than the
\* reported (rounded) average_merit_score; it can equal it.
C28_FlaggedAtMostReportedAverage ==
    Done => \A k \in 1..Len(report.risk_flags) :
              EntryScore(report.risk_flags[k]) <= Stats.average_merit_score

\* a flagged record that is below the exact mean of the scores and whose
\* score equals the reported average
C28_Witness ==
    /\ Done
    /\ \E k \in 1..Len(report.risk_flags) :
         /\ EntryScore(report.risk_flags[k]) = Stats.average_merit_score
         /\ Len(processed_staff) * EntryScore(report.risk_flags[k])
              < TotalScore(processed_staff)

\* C29: the top-ranked record of a batch is never risk-flagged whatever its
\* salary, and when all scored records have the same final_score (so also
\* for a single record) risk_flags is empty.
C29_TopRankedNeverFlagged ==
    (Done /\ processed_staff # <<>>) =>
        /\ ~Flagged(processed_staff[1])
        /\ (\A i \in Ranked : processed_staff[i].final_score
                                = processed_staff[1].final_score)
             => report.risk_flags = <<>>

====
